---- MODULE Spec2Model ----
(***************************************************************************)
(* The load of the database module O24by5mb.py as a state machine: one     *)
(* action per top-level statement group, one step per loop iteration or    *)
(* literal assignment.  Python's dict, list, str, range and "%" formatting *)
(* are modelled by the operators of the first section.                     *)
(***************************************************************************)
EXTENDS Integers, Sequences, FiniteSets, TLC

VARIABLES
  pc,        \* the statement group the load is in
  i,         \* statements executed / list elements visited in the group
  iter,      \* the dict iterator of the rescaling loop: [pos, size]
  err,       \* "" or the exception that ended the load
  HRXN, HRXN_DD, HRXN_ED, HRXN_MX,
  RXNM, ACTV, ACTV_CP, ACTV_SA,
  BIND, TAGL, GEOS,
  heap       \* the Molecule objects: [count, at], at[key] the object GEOS[key] is

vars == <<pc, i, iter, err, HRXN, HRXN_DD, HRXN_ED, HRXN_MX,
          RXNM, ACTV, ACTV_CP, ACTV_SA, BIND, TAGL, GEOS, heap>>

----------------------------------------------------------------------------
(* Python values *)

Range(s) == {s[k] : k \in DOMAIN s}

NoDup(s) == Cardinality(Range(s)) = Len(s)

Digit == <<"0", "1", "2", "3", "4", "5", "6", "7", "8", "9">>

\* str(n) of a non-negative int: its decimal digits, most significant first.
RECURSIVE str(_)
str(n) == IF n < 10 THEN Digit[n + 1] ELSE str(n \div 10) \o Digit[(n % 10) + 1]

\* list(range(a, b))
range(a, b) == [k \in 1..(b - a) |-> a + k - 1]

\* "%s-%s<role>" % (a, b), role one of "", "-dimer", "-monoA-CP", "-monoB-CP"
Fmt(role, a, b) == a \o "-" \o b \o role

\* A dict: its keys in insertion order and its values.
EmptyDict == [order |-> <<>>, val |-> [k \in {} |-> 0]]

Keys(d) == DOMAIN d.val

\* d[k] = v: a new key goes last, an existing key keeps its place.
SetItem(d, k, v) ==
  IF k \in DOMAIN d.val
    THEN [d EXCEPT !.val = [x \in DOMAIN d.val |-> IF x = k THEN v ELSE d.val[x]]]
    ELSE [order |-> Append(d.order, k), val |-> (k :> v) @@ d.val]

\* {k1: v1, k2: v2, ...}: the items are inserted left to right.
RECURSIVE DictLit(_)
DictLit(items) ==
  IF Len(items) = 0 THEN EmptyDict
  ELSE LET last == items[Len(items)]
       IN  SetItem(DictLit(SubSeq(items, 1, Len(items) - 1)), last[1], last[2])

\* A float of the reference table, kept exact: centi/100 divided by each
\* element of divs (a divisor is in units of 10^-4).
Num(centi) == [centi |-> centi, divs |-> <<>>]

\* value / k
Div(value, k) == [value EXCEPT !.divs = Append(@, k)]

\* round(value, nd) in units of 10^-nd, for a value divided once: long
\* division of |centi| * 100 by the divisor, then round half away from zero
\* (no quotient of the table is within 10^-9 of a tie, where the double's
\* rounding could differ).
RECURSIVE LongDiv(_, _, _, _)
LongDiv(q, r, k, nd) ==
  IF nd = 0 THEN <<q, r>>
  ELSE LongDiv(q * 10 + ((r * 10) \div k), (r * 10) % k, k, nd - 1)

Round(value, nd) ==
  LET k   == value.divs[1]
      a   == IF value.centi < 0 THEN -value.centi ELSE value.centi
      qr  == LongDiv((a * 100) \div k, (a * 100) % k, k, nd)
      mag == IF 2 * qr[2] >= k THEN qr[1] + 1 ELSE qr[1]
  IN  IF value.centi < 0 THEN -mag ELSE mag

----------------------------------------------------------------------------
(* The literal tables of the source *)

dbse == "O24by5mb"

\* DIST with a first label that no dimer literal carries.
DIST_NoGeometry == <<"-0.8", "-1.0", "-1.2", "-1.5", "-2.0">>

DIST == <<"-0.9", "-1.0", "-1.2", "-1.5", "-2.0">>

\* [str(rxn) + d for rxn in rxns for d in DIST]
MemberList_LabelMajor(rxns) ==
  [k \in 1..(Len(rxns) * Len(DIST)) |->
     str(rxns[((k - 1) % Len(rxns)) + 1]) \o DIST[((k - 1) \div Len(rxns)) + 1]]

MemberList(rxns) ==
  [k \in 1..(Len(rxns) * Len(DIST)) |->
     str(rxns[((k - 1) \div Len(DIST)) + 1]) \o DIST[((k - 1) % Len(DIST)) + 1]]

\* The table of the module docstring: number, the two species of the name,
\* subset.
DOC_TABLE ==
  << [no |-> 1, A |-> "CN", B |-> "He", subset |-> "DD"],
     [no |-> 2, A |-> "NH", B |-> "He", subset |-> "DD"],
     [no |-> 3, A |-> "C2H3", B |-> "C2H4", subset |-> "DD"],
     [no |-> 4, A |-> "O2", B |-> "H2", subset |-> "DD"],
     [no |-> 5, A |-> "NH", B |-> "Ar", subset |-> "DD"],
     [no |-> 6, A |-> "CN", B |-> "Ar", subset |-> "DD"],
     [no |-> 7, A |-> "O2", B |-> "N2", subset |-> "DD"],
     [no |-> 8, A |-> "H2O", B |-> "O2(sp)", subset |-> "DD"],
     [no |-> 9, A |-> "O2", B |-> "O2", subset |-> "DD"],
     [no |-> 10, A |-> "NH", B |-> "NH", subset |-> "ED"],
     [no |-> 11, A |-> "CH2O", B |-> "NH2", subset |-> "ED"],
     [no |-> 12, A |-> "H2O", B |-> "Na", subset |-> "ED"],
     [no |-> 13, A |-> "H2O", B |-> "OH", subset |-> "ED"],
     [no |-> 14, A |-> "H2O", B |-> "O2H", subset |-> "ED"],
     [no |-> 15, A |-> "Li", B |-> "NH3(gm)", subset |-> "ED"],
     [no |-> 16, A |-> "Li", B |-> "O2", subset |-> "MX"],
     [no |-> 17, A |-> "CN", B |-> "H2", subset |-> "MX"],
     [no |-> 18, A |-> "Li", B |-> "NH3(lm)", subset |-> "MX"],
     [no |-> 19, A |-> "H2O", B |-> "O2(gm)", subset |-> "MX"],
     [no |-> 20, A |-> "Na", B |-> "Li", subset |-> "MX"],
     [no |-> 21, A |-> "CO2", B |-> "O2", subset |-> "MX"],
     [no |-> 22, A |-> "C2H3", B |-> "CO2", subset |-> "MX"],
     [no |-> 23, A |-> "He*", B |-> "He*", subset |-> "MX"],
     [no |-> 24, A |-> "HF", B |-> "CO+", subset |-> "MX"] >>

\* RXNS_DD with reaction 10 added (10 both in DD and ED).
RXNS_DD_Ten == <<1, 2, 3, 4, 5, 6, 7, 8, 9, 10>>

RXNS_DD == <<1, 2, 3, 4, 5, 6, 7, 8, 9>>

RXNS_ED == <<10, 11, 12, 13, 14, 15>>

\* RXNS_MX with the interval shifted down by one (15 both in ED and MX, 24 nowhere).
RXNS_MX_Shifted == <<15, 16, 17, 18, 19, 20, 21, 22, 23>>

RXNS_MX == <<16, 17, 18, 19, 20, 21, 22, 23, 24>>

\* 349.7551, in units of 10^-4
KCALMOL2WAVENUMBERS_Typo == 3497551 - 36

KCALMOL2WAVENUMBERS == 3497551

\* BIND_LIT with the assignment of 13-1.2 keyed 13-1.0, the line above it.
BIND_LIT_DupKey ==
  << <<"1-0.9", 426>>, <<"1-1.0", -1958>>, <<"1-1.2", -1124>>, <<"1-1.5", -291>>, <<"1-2.0", -48>>,
     <<"2-0.9", -728>>, <<"2-1.0", -1969>>, <<"2-1.2", -1038>>, <<"2-1.5", -273>>, <<"2-2.0", -41>>,
     <<"3-0.9", 178>>, <<"3-1.0", -3494>>, <<"3-1.2", -1096>>, <<"3-1.5", 275>>, <<"3-2.0", 227>>,
     <<"4-0.9", -1664>>, <<"4-1.0", -5460>>, <<"4-1.2", -3111>>, <<"4-1.5", -846>>, <<"4-2.0", -140>>,
     <<"5-0.9", -8871>>, <<"5-1.0", -9844>>, <<"5-1.2", -4226>>, <<"5-1.5", -1030>>, <<"5-2.0", -159>>,
     <<"6-0.9", 5269>>, <<"6-1.0", -11043>>, <<"6-1.2", -6645>>, <<"6-1.5", -1657>>, <<"6-2.0", -259>>,
     <<"7-0.9", -3162>>, <<"7-1.0", -11364>>, <<"7-1.2", -6269>>, <<"7-1.5", -1671>>, <<"7-2.0", -275>>,
     <<"8-0.9", -1309>>, <<"8-1.0", -12501>>, <<"8-1.2", -5942>>, <<"8-1.5", -894>>, <<"8-2.0", 95>>,
     <<"9-0.9", -6646>>, <<"9-1.0", -13440>>, <<"9-1.2", -7134>>, <<"9-1.5", -1924>>, <<"9-2.0", -315>>,
     <<"10-0.9", -46581>>, <<"10-1.0", -69747>>, <<"10-1.2", -45991>>, <<"10-1.5", -20570>>, <<"10-2.0", -7667>>,
     <<"11-0.9", -76253>>, <<"11-1.0", -102731>>, <<"11-1.2", -73141>>, <<"11-1.5", -33971>>, <<"11-2.0", -12501>>,
     <<"12-0.9", -64524>>, <<"12-1.0", -179108>>, <<"12-1.2", -128310>>, <<"12-1.5", -52159>>, <<"12-2.0", -13713>>,
     <<"13-0.9", -143156>>, <<"13-1.0", -198378>>, <<"13-1.0", -135250>>, <<"13-1.5", -59820>>, <<"13-2.0", -20686>>,
     <<"14-0.9", -240867>>, <<"14-1.0", -264719>>, <<"14-1.2", -159702>>, <<"14-1.5", -67835>>, <<"14-2.0", -23481>>,
     <<"15-0.9", -396573>>, <<"15-1.0", -501458>>, <<"15-1.2", -381080>>, <<"15-1.5", -167344>>, <<"15-2.0", -42238>>,
     <<"16-0.9", -1470>>, <<"16-1.0", -3631>>, <<"16-1.2", -2441>>, <<"16-1.5", -719>>, <<"16-2.0", -113>>,
     <<"17-0.9", -1605>>, <<"17-1.0", -5041>>, <<"17-1.2", -2851>>, <<"17-1.5", -771>>, <<"17-2.0", -126>>,
     <<"18-0.9", -8723>>, <<"18-1.0", -10377>>, <<"18-1.2", -7310>>, <<"18-1.5", -2573>>, <<"18-2.0", -432>>,
     <<"19-0.9", -7337>>, <<"19-1.0", -22322>>, <<"19-1.2", -12650>>, <<"19-1.5", -3599>>, <<"19-2.0", -677>>,
     <<"20-0.9", -21040>>, <<"20-1.0", -25927>>, <<"20-1.2", -18818>>, <<"20-1.5", -7517>>, <<"20-2.0", -1425>>,
     <<"21-0.9", -18720>>, <<"21-1.0", -26629>>, <<"21-1.2", -13252>>, <<"21-1.5", -3614>>, <<"21-2.0", -637>>,
     <<"22-0.9", -36642>>, <<"22-1.0", -65894>>, <<"22-1.2", -41505>>, <<"22-1.5", -14079>>, <<"22-2.0", -3154>>,
     <<"23-0.9", -82691>>, <<"23-1.0", -101890>>, <<"23-1.2", -79024>>, <<"23-1.5", -34129>>, <<"23-2.0", -7418>>,
     <<"24-0.9", -892276>>, <<"24-1.0", -1032499>>, <<"24-1.2", -765609>>, <<"24-1.5", -370301>>, <<"24-2.0", -164158>> >>

\* BIND["%s-%s" % (dbse, key)] = value: the 120 literal assignments, in
\* source order; a value is the literal in hundredths of a wavenumber.
BIND_LIT ==
  << <<"1-0.9", 426>>, <<"1-1.0", -1958>>, <<"1-1.2", -1124>>, <<"1-1.5", -291>>, <<"1-2.0", -48>>,
     <<"2-0.9", -728>>, <<"2-1.0", -1969>>, <<"2-1.2", -1038>>, <<"2-1.5", -273>>, <<"2-2.0", -41>>,
     <<"3-0.9", 178>>, <<"3-1.0", -3494>>, <<"3-1.2", -1096>>, <<"3-1.5", 275>>, <<"3-2.0", 227>>,
     <<"4-0.9", -1664>>, <<"4-1.0", -5460>>, <<"4-1.2", -3111>>, <<"4-1.5", -846>>, <<"4-2.0", -140>>,
     <<"5-0.9", -8871>>, <<"5-1.0", -9844>>, <<"5-1.2", -4226>>, <<"5-1.5", -1030>>, <<"5-2.0", -159>>,
     <<"6-0.9", 5269>>, <<"6-1.0", -11043>>, <<"6-1.2", -6645>>, <<"6-1.5", -1657>>, <<"6-2.0", -259>>,
     <<"7-0.9", -3162>>, <<"7-1.0", -11364>>, <<"7-1.2", -6269>>, <<"7-1.5", -1671>>, <<"7-2.0", -275>>,
     <<"8-0.9", -1309>>, <<"8-1.0", -12501>>, <<"8-1.2", -5942>>, <<"8-1.5", -894>>, <<"8-2.0", 95>>,
     <<"9-0.9", -6646>>, <<"9-1.0", -13440>>, <<"9-1.2", -7134>>, <<"9-1.5", -1924>>, <<"9-2.0", -315>>,
     <<"10-0.9", -46581>>, <<"10-1.0", -69747>>, <<"10-1.2", -45991>>, <<"10-1.5", -20570>>, <<"10-2.0", -7667>>,
     <<"11-0.9", -76253>>, <<"11-1.0", -102731>>, <<"11-1.2", -73141>>, <<"11-1.5", -33971>>, <<"11-2.0", -12501>>,
     <<"12-0.9", -64524>>, <<"12-1.0", -179108>>, <<"12-1.2", -128310>>, <<"12-1.5", -52159>>, <<"12-2.0", -13713>>,
     <<"13-0.9", -143156>>, <<"13-1.0", -198378>>, <<"13-1.2", -135250>>, <<"13-1.5", -59820>>, <<"13-2.0", -20686>>,
     <<"14-0.9", -240867>>, <<"14-1.0", -264719>>, <<"14-1.2", -159702>>, <<"14-1.5", -67835>>, <<"14-2.0", -23481>>,
     <<"15-0.9", -396573>>, <<"15-1.0", -501458>>, <<"15-1.2", -381080>>, <<"15-1.5", -167344>>, <<"15-2.0", -42238>>,
     <<"16-0.9", -1470>>, <<"16-1.0", -3631>>, <<"16-1.2", -2441>>, <<"16-1.5", -719>>, <<"16-2.0", -113>>,
     <<"17-0.9", -1605>>, <<"17-1.0", -5041>>, <<"17-1.2", -2851>>, <<"17-1.5", -771>>, <<"17-2.0", -126>>,
     <<"18-0.9", -8723>>, <<"18-1.0", -10377>>, <<"18-1.2", -7310>>, <<"18-1.5", -2573>>, <<"18-2.0", -432>>,
     <<"19-0.9", -7337>>, <<"19-1.0", -22322>>, <<"19-1.2", -12650>>, <<"19-1.5", -3599>>, <<"19-2.0", -677>>,
     <<"20-0.9", -21040>>, <<"20-1.0", -25927>>, <<"20-1.2", -18818>>, <<"20-1.5", -7517>>, <<"20-2.0", -1425>>,
     <<"21-0.9", -18720>>, <<"21-1.0", -26629>>, <<"21-1.2", -13252>>, <<"21-1.5", -3614>>, <<"21-2.0", -637>>,
     <<"22-0.9", -36642>>, <<"22-1.0", -65894>>, <<"22-1.2", -41505>>, <<"22-1.5", -14079>>, <<"22-2.0", -3154>>,
     <<"23-0.9", -82691>>, <<"23-1.0", -101890>>, <<"23-1.2", -79024>>, <<"23-1.5", -34129>>, <<"23-2.0", -7418>>,
     <<"24-0.9", -892276>>, <<"24-1.0", -1032499>>, <<"24-1.2", -765609>>, <<"24-1.5", -370301>>, <<"24-2.0", -164158>> >>

\* TAGL["%s-%s<role>" % (dbse, key)] = text: the literal assignments, in
\* source order, as <<role, key, text>>; a text is the sequence of its lexemes
\* (runs of blanks, words, the "R=" marker and the value after it), whose
\* concatenation is the string of the source.
TAGL_LIT_1 ==
  << <<"", "1-0.9", <<" ", "CN", " ", "He", " ", "R=", "0.9">>>>,
     <<"-dimer", "1-0.9", <<"Dimer", " ", "from", " ", "CN", " ", "-", " ", "He">>>>,
     <<"-monoA-CP", "1-0.9", <<"Monomer", " ", "A", " ", "CN", " ", "-", " ", "He">>>>,
     <<"-monoB-CP", "1-0.9", <<"Monomer", " ", "B", " ", "CN", " ", "-", " ", "He">>>>,
     <<"", "1-1.0", <<" ", "CN", " ", "He", " ", "R=", "1.0">>>>,
     <<"-dimer", "1-1.0", <<"Dimer", " ", "from", " ", "CN", " ", "He">>>>,
     <<"-monoA-CP", "1-1.0", <<"Monomer", " ", "A", " ", "CN", " ", "-", " ", "He">>>>,
     <<"-monoB-CP", "1-1.0", <<"Monomer", " ", "B", " ", "CN", " ", "-", " ", "He">>>>,
     <<"", "1-1.2", <<" ", "CN", " ", "He", " ", "R=", "1.2">>>>,
     <<"-dimer", "1-1.2", <<"Dimer", " ", "from", " ", "CN", " ", "He">>>>,
     <<"-monoA-CP", "1-1.2", <<"Monomer", " ", "A", " ", "CN", " ", "-", " ", "He">>>>,
     <<"-monoB-CP", "1-1.2", <<"Monomer", " ", "B", " ", "CN", " ", "-", " ", "He">>>>,
     <<"", "1-1.5", <<" ", "CN", " ", "He", " ", "R=", "1.5">>>>,
     <<"-dimer", "1-1.5", <<"Dimer", " ", "from", " ", "CN", " ", "-", " ", "He">>>>,
     <<"-monoA-CP", "1-1.5", <<"Monomer", " ", "A", " ", "CN", " ", "-", " ", "He">>>>,
     <<"-monoB-CP", "1-1.5", <<"Monomer", " ", "B", " ", "CN", " ", "-", " ", "He">>>>,
     <<"", "1-2.0", <<" ", "CN", " ", "He", " ", "R=", "2.0">>>>,
     <<"-dimer", "1-2.0", <<"Dimer", " ", "from", " ", "CN", " ", "-", " ", "He">>>>,
     <<"-monoA-CP", "1-2.0", <<"Monomer", " ", "A", " ", "CN", " ", "-", " ", "He">>>>,
     <<"-monoB-CP", "1-2.0", <<"Monomer", " ", "B", " ", "CN", " ", "-", " ", "He">>>> >>

TAGL_LIT_2 ==
  << <<"", "2-0.9", <<" ", "NH", " ", "He", " ", "R=", "0.9">>>>,
     <<"-dimer", "2-0.9", <<"Dimer", " ", "from", " ", "NH", " ", "-", " ", "He">>>>,
     <<"-monoA-CP", "2-0.9", <<"Monomer", " ", "A", " ", "NH", " ", "-", " ", "He">>>>,
     <<"-monoB-CP", "2-0.9", <<"Monomer", " ", "B", " ", "NH", " ", "-", " ", "He">>>>,
     <<"", "2-1.0", <<" ", "NH", " ", "He", " ">>>>,
     <<"-dimer", "2-1.0", <<"Dimer", " ", "from", " ", "NH", " ", "-", " ", "He">>>>,
     <<"-monoA-CP", "2-1.0", <<"Monomer", " ", "A", " ", "NH", " ", "-", " ", "He">>>>,
     <<"-monoB-CP", "2-1.0", <<"Monomer", " ", "B", " ", "NH", " ", "-", " ", "He">>>>,
     <<"", "2-1.2", <<" ", "NH", " ", "He", " ", "R=", "1.2">>>>,
     <<"-dimer", "2-1.2", <<"Dimer", " ", "from", " ", "NH", " ", "-", " ", "He">>>>,
     <<"-monoA-CP", "2-1.2", <<"Monomer", " ", "A", " ", "NH", " ", "-", " ", "He">>>>,
     <<"-monoB-CP", "2-1.2", <<"Monomer", " ", "B", " ", "NH", " ", "-", " ", "He">>>>,
     <<"", "2-1.5", <<" ", "NH", " ", "He", " ", "R=", "1.5">>>>,
     <<"-dimer", "2-1.5", <<"Dimer", " ", "from", " ", "NH", " ", "-", " ", "He">>>>,
     <<"-monoA-CP", "2-1.5", <<"Monomer", " ", "A", " ", "NH", " ", "-", " ", "He">>>>,
     <<"-monoB-CP", "2-1.5", <<"Monomer", " ", "B", " ", "NH", " ", "-", " ", "He">>>>,
     <<"", "2-2.0", <<" ", "NH", " ", "He", " ", "R=", "2.0">>>>,
     <<"-dimer", "2-2.0", <<"Dimer", " ", "from", " ", "NH", " ", "-", " ", "He">>>>,
     <<"-monoA-CP", "2-2.0", <<"Monomer", " ", "A", " ", "NH", " ", "-", " ", "He">>>>,
     <<"-monoB-CP", "2-2.0", <<"Monomer", " ", "B", " ", "NH", " ", "-", " ", "He">>>> >>

TAGL_LIT_3 ==
  << <<"", "3-0.9", <<" ", "C2H3", " ", "-", " ", "C2H4", " ", "R=", "0.9">>>>,
     <<"-dimer", "3-0.9", <<"Dimer", " ", "from", " ", "C2H3", " ", "-", " ", "C2H4">>>>,
     <<"-monoA-CP", "3-0.9", <<"Monomer", " ", "A", " ", "C2H3", " ", "-", " ", "C2H4">>>>,
     <<"-monoB-CP", "3-0.9", <<"Monomer", " ", "B", " ", "C2H3", " ", "-", " ", "C2H4">>>>,
     <<"", "3-1.0", <<" ", "C2H3", " ", "-", " ", "C2H4", " ", "R=", "1.0">>>>,
     <<"-dimer", "3-1.0", <<"Dimer", " ", "from", " ", "C2H3", " ", "-", " ", "C2H4">>>>,
     <<"-monoA-CP", "3-1.0", <<"Monomer", " ", "A", " ", "C2H3", " ", "-", " ", "C2H4">>>>,
     <<"-monoB-CP", "3-1.0", <<"Monomer", " ", "B", " ", "C2H3", " ", "-", " ", "C2H4">>>>,
     <<"", "3-1.2", <<" ", "C2H3", " ", "-", " ", "C2H4", " ", "R=", "1.2">>>>,
     <<"-dimer", "3-1.2", <<"Dimer", " ", "from", " ", "C2H3", " ", "-", " ", "C2H4">>>>,
     <<"-monoA-CP", "3-1.2", <<"Monomer", " ", "A", " ", "C2H3", " ", "-", " ", "C2H4">>>>,
     <<"-monoB-CP", "3-1.2", <<"Monomer", " ", "B", " ", "C2H3", " ", "-", " ", "C2H4">>>>,
     <<"", "3-1.5", <<"C2H3", " ", "C2H4", " ", "R=", "1.5">>>>,
     <<"-dimer", "3-1.5", <<"Dimer", " ", "from", " ", "C2H3", " ", "-", " ", "C2H4">>>>,
     <<"-monoA-CP", "3-1.5", <<"Monomer", " ", "A", " ", "C2H3", " ", "-", " ", "C2H4">>>>,
     <<"-monoB-CP", "3-1.5", <<"Monomer", " ", "B", " ", "C2H3", " ", "-", " ", "C2H4">>>>,
     <<"", "3-2.0", <<" ", "C2H3", " ", "C2H4", " ", "R=", "2.0">>>>,
     <<"-dimer", "3-2.0", <<"Dimer", " ", "from", " ", "C2H3", " ", "-", " ", "C2H4">>>>,
     <<"-monoA-CP", "3-2.0", <<"Monomer", " ", "A", " ", "C2H3", " ", "-", " ", "C2H4">>>>,
     <<"-monoB-CP", "3-2.0", <<"Monomer", " ", "B", " ", "C2H3", " ", "-", " ", "C2H4">>>> >>

TAGL_LIT_4 ==
  << <<"", "4-0.9", <<" ", "O2", " ", "H2", " ", "R=", "0.9">>>>,
     <<"-dimer", "4-0.9", <<"Dimer", " ", "from", " ", "O2", " ", "-", " ", "H2">>>>,
     <<"-monoA-CP", "4-0.9", <<"Monomer", " ", "A", " ", "O2", " ", "-", " ", "H2">>>>,
     <<"-monoB-CP", "4-0.9", <<"Monomer", " ", "B", " ", "O2", " ", "-", " ", "H2">>>>,
     <<"", "4-1.0", <<" ", "O2", " ", "H2", " ", "R=", "1.0">>>>,
     <<"-dimer", "4-1.0", <<"Dimer", " ", "from", " ", "O2", " ", "-", " ", "H2">>>>,
     <<"-monoA-CP", "4-1.0", <<"Monomer", " ", "A", " ", "O2", " ", "-", " ", "H2">>>>,
     <<"-monoB-CP", "4-1.0", <<"Monomer", " ", "B", " ", "O2", " ", "-", " ", "H2">>>>,
     <<"", "4-1.2", <<" ", "O2", " ", "H2", " ", "R=", "1.2">>>>,
     <<"-dimer", "4-1.2", <<"Dimer", " ", "from", " ", "O2", " ", "-", " ", "H2">>>>,
     <<"-monoA-CP", "4-1.2", <<"Monomer", " ", "A", " ", "O2", " ", "-", " ", "H2">>>>,
     <<"-monoB-CP", "4-1.2", <<"Monomer", " ", "B", " ", "O2", " ", "-", " ", "H2">>>>,
     <<"", "4-1.5", <<" ", "O2", " ", "H2", " ", "R=", "1.5">>>>,
     <<"-dimer", "4-1.5", <<"Dimer", " ", "from", " ", "O2", " ", "-", " ", "H2">>>>,
     <<"-monoA-CP", "4-1.5", <<"Monomer", " ", "A", " ", "O2", " ", "-", " ", "H2">>>>,
     <<"-monoB-CP", "4-1.5", <<"Monomer", " ", "B", " ", "O2", " ", "-", " ", "H2">>>>,
     <<"", "4-2.0", <<" ", "O2", " ", "H2", " ", "R=", "2.0">>>>,
     <<"-dimer", "4-2.0", <<"Dimer", " ", "from", " ", "O2", " ", "-", " ", "H2">>>>,
     <<"-monoA-CP", "4-2.0", <<"Monomer", " ", "A", " ", "O2", " ", "-", " ", "H2">>>>,
     <<"-monoB-CP", "4-2.0", <<"Monomer", " ", "B", " ", "O2", " ", "-", " ", "H2">>>> >>

TAGL_LIT_5 ==
  << <<"", "5-0.9", <<" ", "NH", " ", "Ar", " ", "R=", "0.9">>>>,
     <<"-dimer", "5-0.9", <<"Dimer", " ", "from", " ", "NH", " ", "-", " ", "Ar">>>>,
     <<"-monoA-CP", "5-0.9", <<"Monomer", " ", "A", " ", "NH", " ", "-", " ", "Ar">>>>,
     <<"-monoB-CP", "5-0.9", <<"Monomer", " ", "B", " ", "NH", " ", "-", " ", "Ar">>>>,
     <<"", "5-1.0", <<" ", "NH", " ", "Ar", " ", "R=", "1.0">>>>,
     <<"-dimer", "5-1.0", <<"Dimer", " ", "from", " ", "NH", " ", "-", " ", "Ar">>>>,
     <<"-monoA-CP", "5-1.0", <<"Monomer", " ", "A", " ", "NH", " ", "-", " ", "Ar">>>>,
     <<"-monoB-CP", "5-1.0", <<"Monomer", " ", "B", " ", "NH", " ", "-", " ", "Ar">>>>,
     <<"", "5-1.2", <<" ", "NH", " ", "Ar", " ", "R=", "1.2">>>>,
     <<"-dimer", "5-1.2", <<"Dimer", " ", "from", " ", "NH", " ", "-", " ", "Ar">>>>,
     <<"-monoA-CP", "5-1.2", <<"Monomer", " ", "A", " ", "NH", " ", "-", " ", "Ar">>>>,
     <<"-monoB-CP", "5-1.2", <<"Monomer", " ", "B", " ", "NH", " ", "-", " ", "Ar">>>>,
     <<"", "5-1.5", <<" ", "NH", " ", "Ar", " ", "R=", "1.5">>>>,
     <<"-dimer", "5-1.5", <<"Dimer", " ", "from", " ", "NH", " ", "-", " ", "Ar">>>>,
     <<"-monoA-CP", "5-1.5", <<"Monomer", " ", "A", " ", "NH", " ", "-", " ", "Ar">>>>,
     <<"-monoB-CP", "5-1.5", <<"Monomer", " ", "B", " ", "NH", " ", "-", " ", "Ar">>>>,
     <<"", "5-2.0", <<" ", "NH", " ", "Ar", " ", "R=", "2.0">>>>,
     <<"-dimer", "5-2.0", <<"Dimer", " ", "from", " ", "NH", " ", "-", " ", "Ar">>>>,
     <<"-monoA-CP", "5-2.0", <<"Monomer", " ", "A", " ", "NH", " ", "-", " ", "Ar">>>>,
     <<"-monoB-CP", "5-2.0", <<"Monomer", " ", "B", " ", "NH", " ", "-", " ", "Ar">>>> >>

TAGL_LIT_6 ==
  << <<"", "6-0.9", <<" ", "CN", " ", "Ar", " ", "R=", "0.9">>>>,
     <<"-dimer", "6-0.9", <<"Dimer", " ", "from", " ", "CN", " ", "-", " ", "Ar">>>>,
     <<"-monoA-CP", "6-0.9", <<"Monomer", " ", "A", " ", "CN", " ", "-", " ", "Ar">>>>,
     <<"-monoB-CP", "6-0.9", <<"Monomer", " ", "B", " ", "CN", " ", "-", " ", "Ar">>>>,
     <<"", "6-1.0", <<" ", "CN", " ", "Ar", " ", "R=", "1.0">>>>,
     <<"-dimer", "6-1.0", <<"Dimer", " ", "from", " ", "CN", " ", "-", " ", "Ar">>>>,
     <<"-monoA-CP", "6-1.0", <<"Monomer", " ", "A", " ", "CN", " ", "-", " ", "Ar">>>>,
     <<"-monoB-CP", "6-1.0", <<"Monomer", " ", "B", " ", "CN", " ", "-", " ", "Ar">>>>,
     <<"", "6-1.2", <<" ", "CN", " ", "Ar", " ", "R=", "1.2">>>>,
     <<"-dimer", "6-1.2", <<"Dimer", " ", "from", " ", "CN", " ", "-", " ", "Ar">>>>,
     <<"-monoA-CP", "6-1.2", <<"Monomer", " ", "A", " ", "CN", " ", "-", " ", "Ar">>>>,
     <<"-monoB-CP", "6-1.2", <<"Monomer", " ", "B", " ", "CN", " ", "-", " ", "Ar">>>>,
     <<"", "6-1.5", <<" ", "CN", " ", "Ar", " ", "R=", "1.5">>>>,
     <<"-dimer", "6-1.5", <<"Dimer", " ", "from", " ", "CN", " ", "-", " ", "Ar">>>>,
     <<"-monoA-CP", "6-1.5", <<"Monomer", " ", "A", " ", "CN", " ", "-", " ", "Ar">>>>,
     <<"-monoB-CP", "6-1.5", <<"Monomer", " ", "B", " ", "CN", " ", "-", " ", "Ar">>>>,
     <<"", "6-2.0", <<" ", "CN", " ", "Ar", " ", "R=", "2.0">>>>,
     <<"-dimer", "6-2.0", <<"Dimer", " ", "from", " ", "CN", " ", "-", " ", "Ar", " ">>>>,
     <<"-monoA-CP", "6-2.0", <<"Monomer", " ", "A", " ", "CN", " ", "-", " ", "Ar">>>>,
     <<"-monoB-CP", "6-2.0", <<"Monomer", " ", "B", " ", "CN", " ", "-", " ", "Ar">>>> >>

TAGL_LIT_7 ==
  << <<"", "7-0.9", <<" ", "O2", " ", "N2", " ", "R=", "0.9">>>>,
     <<"-dimer", "7-0.9", <<"Dimer", " ", "from", " ", "O2", " ", "-", " ", "N2">>>>,
     <<"-monoA-CP", "7-0.9", <<"Monomer", " ", "A", " ", "O2", " ", "-", " ", "N2">>>>,
     <<"-monoB-CP", "7-0.9", <<"Monomer", " ", "B", " ", "O2", " ", "-", " ", "N2">>>>,
     <<"", "7-1.0", <<" ", "O2", " ", "N2", " ", "R=", "1.0">>>>,
     <<"-dimer", "7-1.0", <<"Dimer", " ", "from", " ", "O2", " ", "-", " ", "N2">>>>,
     <<"-monoA-CP", "7-1.0", <<"Monomer", " ", "A", " ", "O2", " ", "-", " ", "N2">>>>,
     <<"-monoB-CP", "7-1.0", <<"Monomer", " ", "B", " ", "O2", " ", "-", " ", "N2">>>>,
     <<"", "7-1.2", <<" ", "O2", " ", "N2", " ", "R=", "1.2">>>>,
     <<"-dimer", "7-1.2", <<"Dimer", " ", "from", " ", "O2", " ", "-", " ", "N2">>>>,
     <<"-monoA-CP", "7-1.2", <<"Monomer", " ", "A", " ", "O2", " ", "-", " ", "N2">>>>,
     <<"-monoB-CP", "7-1.2", <<"Monomer", " ", "B", " ", "O2", " ", "-", " ", "N2">>>>,
     <<"", "7-1.5", <<" ", "O2", " ", "N2", " ", "R=", "1.5">>>>,
     <<"-dimer", "7-1.5", <<"Dimer", " ", "from", " ", "O2", " ", "-", " ", "N2">>>>,
     <<"-monoA-CP", "7-1.5", <<"Monomer", " ", "A", " ", "O2", " ", "-", " ", "N2">>>>,
     <<"-monoB-CP", "7-1.5", <<"Monomer", " ", "B", " ", "O2", " ", "-", " ", "N2">>>>,
     <<"", "7-2.0", <<" ", "O2", " ", "N2", " ", "R=", "2.0">>>>,
     <<"-dimer", "7-2.0", <<"Dimer", " ", "from", " ", "O2", " ", "-", " ", "N2">>>>,
     <<"-monoA-CP", "7-2.0", <<"Monomer", " ", "A", " ", "O2", " ", "-", " ", "N2">>>>,
     <<"-monoB-CP", "7-2.0", <<"Monomer", " ", "B", " ", "O2", " ", "-", " ", "N2">>>> >>

TAGL_LIT_8 ==
  << <<"", "8-0.9", <<" ", "H2O", " ", "O2", " ", "(sp)", " ", "R=", "0.9">>>>,
     <<"-dimer", "8-0.9", <<"Dimer", " ", "from", " ", "H2O", " ", "-", " ", "O2", " ", "(sp)">>>>,
     <<"-monoA-CP", "8-0.9", <<"Monomer", " ", "A", " ", "H2O", " ", "-", " ", "O2", " ", "(sp)">>>>,
     <<"-monoB-CP", "8-0.9", <<"Monomer", " ", "B", " ", "H2O", " ", "-", " ", "O2", " ", "(sp)">>>>,
     <<"", "8-1.0", <<" ", "H2O", " ", "O2", " ", "(sp)", " ", "R=", "1.0">>>>,
     <<"-dimer", "8-1.0", <<"Dimer", " ", "from", " ", "H2O", " ", "-", " ", "O2", " ", "(sp)">>>>,
     <<"-monoA-CP", "8-1.0", <<"Monomer", " ", "A", " ", "H2O", " ", "-", " ", "O2", " ", "(sp)">>>>,
     <<"-monoB-CP", "8-1.0", <<"Monomer", " ", "B", " ", "H2O", " ", "-", " ", "O2", " ", "(sp)">>>>,
     <<"", "8-1.2", <<" ", "H2O", " ", "O2", " ", "(sp)", " ", "R=", "1.2">>>>,
     <<"-dimer", "8-1.2", <<"Dimer", " ", "from", " ", "H2O", " ", "-", " ", "O2", " ", "(sp)">>>>,
     <<"-monoA-CP", "8-1.2", <<"Monomer", " ", "A", " ", "H2O", " ", "-", " ", "O2", " ", "(sp)">>>>,
     <<"-monoB-CP", "8-1.2", <<"Monomer", " ", "B", " ", "H2O", " ", "-", " ", "O2", " ", "(sp)">>>>,
     <<"", "8-1.5", <<" ", "H2O", " ", "O2", " ", "(sp)", " ", "R=", "1.5">>>>,
     <<"-dimer", "8-1.5", <<"Dimer", " ", "from", " ", "H2O", " ", "-", " ", "O2", " ", "(sp)">>>>,
     <<"-monoA-CP", "8-1.5", <<"Monomer", " ", "A", " ", "H2O", " ", "-", " ", "O2", " ", "(sp)">>>>,
     <<"-monoB-CP", "8-1.5", <<"Monomer", " ", "B", " ", "H2O", " ", "-", " ", "O2", " ", "(sp)">>>>,
     <<"", "8-2.0", <<" ", "H2O", " ", "O2", " ", "(sp)", " ", "R=", "2.0">>>>,
     <<"-dimer", "8-2.0", <<"Dimer", " ", "from", " ", "H2O", " ", "-", " ", "O2", " ", "(sp)">>>>,
     <<"-monoA-CP", "8-2.0", <<"Monomer", " ", "A", " ", "H2O", " ", "-", " ", "O2", " ", "(sp)">>>>,
     <<"-monoB-CP", "8-2.0", <<"Monomer", " ", "B", " ", "H2O", " ", "-", " ", "O2", " ", "(sp)">>>> >>

TAGL_LIT_9 ==
  << <<"", "9-0.9", <<" ", "O2", " ", "O2", " ", "R=", "0.9">>>>,
     <<"-dimer", "9-0.9", <<"Dimer", " ", "from", " ", "O2", " ", "-", " ", "O2">>>>,
     <<"-monoA-CP", "9-0.9", <<"Monomer", " ", "A", " ", "O2", " ", "-", " ", "O2">>>>,
     <<"-monoB-CP", "9-0.9", <<"Monomer", " ", "B", " ", "O2", " ", "-", " ", "O2">>>>,
     <<"", "9-1.0", <<" ", "O2", " ", "O2", " ", "R=", "1.0">>>>,
     <<"-dimer", "9-1.0", <<"Dimer", " ", "from", " ", "O2", " ", "-", " ", "O2">>>>,
     <<"-monoA-CP", "9-1.0", <<"Monomer", " ", "A", " ", "O2", " ", "-", " ", "O2">>>>,
     <<"-monoB-CP", "9-1.0", <<"Monomer", " ", "B", " ", "O2", " ", "-", " ", "O2">>>>,
     <<"", "9-1.2", <<" ", "O2", " ", "O2", " ", "R=", "1.2">>>>,
     <<"-dimer", "9-1.2", <<"Dimer", " ", "from", " ", "O2", " ", "-", " ", "O2">>>>,
     <<"-monoA-CP", "9-1.2", <<"Monomer", " ", "A", " ", "O2", " ", "-", " ", "O2">>>>,
     <<"-monoB-CP", "9-1.2", <<"Monomer", " ", "B", " ", "O2", " ", "-", " ", "O2">>>>,
     <<"", "9-1.5", <<" ", "O2", " ", "O2", " ", "R=", "1.5">>>>,
     <<"-dimer", "9-1.5", <<"Dimer", " ", "from", " ", "O2", " ", "-", " ", "O2">>>>,
     <<"-monoA-CP", "9-1.5", <<"Monomer", " ", "A", " ", "O2", " ", "-", " ", "O2">>>>,
     <<"-monoB-CP", "9-1.5", <<"Monomer", " ", "B", " ", "O2", " ", "-", " ", "O2">>>>,
     <<"", "9-2.0", <<" ", "O2", " ", "O2", " ", "R=", "2.0">>>>,
     <<"-dimer", "9-2.0", <<"Dimer", " ", "from", " ", "O2", " ", "-", " ", "O2">>>>,
     <<"-monoA-CP", "9-2.0", <<"Monomer", " ", "A", " ", "O2", " ", "-", " ", "O2">>>>,
     <<"-monoB-CP", "9-2.0", <<"Monomer", " ", "B", " ", "O2", " ", "-", " ", "O2">>>> >>

TAGL_LIT_10 ==
  << <<"", "10-0.9", <<" ", "NH", " ", "NH", " ", "R=", "0.9">>>>,
     <<"-dimer", "10-0.9", <<"Dimer", " ", "from", " ", "NH", " ", "-", " ", "NH">>>>,
     <<"-monoA-CP", "10-0.9", <<"Monomer", " ", "A", " ", "NH", " ", "-", " ", "NH">>>>,
     <<"-monoB-CP", "10-0.9", <<"Monomer", " ", "B", " ", "NH", " ", "-", " ", "NH">>>>,
     <<"", "10-1.0", <<" ", "NH", " ", "NH", " ", "R=", "1.0">>>>,
     <<"-dimer", "10-1.0", <<"Dimer", " ", "from", " ", "NH", " ", "-", " ", "NH">>>>,
     <<"-monoA-CP", "10-1.0", <<"Monomer", " ", "A", " ", "NH", " ", "-", " ", "NH">>>>,
     <<"-monoB-CP", "10-1.0", <<"Monomer", " ", "B", " ", "NH", " ", "-", " ", "NH">>>>,
     <<"", "10-1.2", <<" ", "NH", " ", "NH", " ", "R=", "1.2">>>>,
     <<"-dimer", "10-1.2", <<"Dimer", " ", "from", " ", "NH", " ", "-", " ", "NH">>>>,
     <<"-monoA-CP", "10-1.2", <<"Monomer", " ", "A", " ", "NH", " ", "-", " ", "NH">>>>,
     <<"-monoB-CP", "10-1.2", <<"Monomer", " ", "B", " ", "NH", " ", "-", " ", "NH">>>>,
     <<"", "10-1.5", <<" ", "NH", " ", "NH", " ", "R=", "1.5">>>>,
     <<"-dimer", "10-1.5", <<"Dimer", " ", "from", " ", "NH", " ", "-", " ", "NH">>>>,
     <<"-monoA-CP", "10-1.5", <<"Monomer", " ", "A", " ", "NH", " ", "-", " ", "NH">>>>,
     <<"-monoB-CP", "10-1.5", <<"Monomer", " ", "B", " ", "NH", " ", "-", " ", "NH">>>>,
     <<"", "10-2.0", <<" ", "NH", " ", "NH", " ", "R=", "2.0">>>>,
     <<"-dimer", "10-2.0", <<"Dimer", " ", "from", " ", "NH", " ", "-", " ", "NH">>>>,
     <<"-monoA-CP", "10-2.0", <<"Monomer", " ", "A", " ", "NH", " ", "-", " ", "NH">>>>,
     <<"-monoB-CP", "10-2.0", <<"Monomer", " ", "B", " ", "NH", " ", "-", " ", "NH">>>> >>

TAGL_LIT_11 ==
  << <<"", "11-0.9", <<" ", "CH2O", " ", "NH2", " ", "R=", "0.9">>>>,
     <<"-dimer", "11-0.9", <<"Dimer", " ", "from", " ", "CH2O", " ", "-", " ", "NH2", " ">>>>,
     <<"-monoA-CP", "11-0.9", <<"Monomer", " ", "A", " ", "CH2O", " ", "-", " ", "NH2", "  ">>>>,
     <<"-monoB-CP", "11-0.9", <<"Monomer", " ", "B", " ", "CH2O", " ", "-", " ", "NH2", "  ">>>>,
     <<"", "11-1.0", <<" ", "CH2O", " ", "NH2", " ", "R=", "1.1">>>>,
     <<"-dimer", "11-1.0", <<"Dimer", " ", "from", " ", "CH2O", " ", "-", " ", "NH2", " ">>>>,
     <<"-monoA-CP", "11-1.0", <<"Monomer", " ", "A", " ", "CH2O", " ", "-", " ", "NH2", "  ">>>>,
     <<"-monoB-CP", "11-1.0", <<"Monomer", " ", "B", " ", "CH2O", " ", "-", " ", "NH2", "  ">>>>,
     <<"", "11-1.2", <<" ", "CH2O", " ", "NH2", " ", "R=", "1.2">>>>,
     <<"-dimer", "11-1.2", <<"Dimer", " ", "from", " ", "CH2O", " ", "-", " ", "NH2", " ">>>>,
     <<"-monoA-CP", "11-1.2", <<"Monomer", " ", "A", " ", "CH2O", " ", "-", " ", "NH2", "  ">>>>,
     <<"-monoB-CP", "11-1.2", <<"Monomer", " ", "B", " ", "CH2O", " ", "-", " ", "NH2", "  ">>>>,
     <<"", "11-1.5", <<" ", "CH2O", " ", "NH2", " ", "R=", "1.5">>>>,
     <<"-dimer", "11-1.5", <<"Dimer", " ", "from", " ", "CH2O", " ", "-", " ", "NH2", " ">>>>,
     <<"-monoA-CP", "11-1.5", <<"Monomer", " ", "A", " ", "CH2O", " ", "-", " ", "NH2", "  ">>>>,
     <<"-monoB-CP", "11-1.5", <<"Monomer", " ", "B", " ", "CH2O", " ", "-", " ", "NH2", "  ">>>>,
     <<"", "11-2.0", <<" ", "CH2O", " ", "NH2", " ", "R=", "2.0">>>>,
     <<"-dimer", "11-2.0", <<"Dimer", " ", "from", " ", "CH2O", " ", "-", " ", "NH2", " ">>>>,
     <<"-monoA-CP", "11-2.0", <<"Monomer", " ", "A", " ", "CH2O", " ", "-", " ", "NH2", "  ">>>>,
     <<"-monoB-CP", "11-2.0", <<"Monomer", " ", "B", " ", "CH2O", " ", "-", " ", "NH2", "  ">>>> >>

TAGL_LIT_12 ==
  << <<"", "12-0.9", <<" ", "H2O", " ", "Na", " ", "R=", "0.9">>>>,
     <<"-dimer", "12-0.9", <<"Dimer", " ", "from", " ", "H2O", " ", "-", " ", "Na">>>>,
     <<"-monoA-CP", "12-0.9", <<"Monomer", " ", "A", " ", "H2O", " ", "-", " ", "Na">>>>,
     <<"-monoB-CP", "12-0.9", <<"Monomer", " ", "B", " ", "H2O", " ", "-", " ", "Na">>>>,
     <<"", "12-1.0", <<" ", "H2O", " ", "Na", " ", "R=", "1.0">>>>,
     <<"-dimer", "12-1.0", <<"Dimer", " ", "from", " ", "H2O", " ", "-", " ", "Na">>>>,
     <<"-monoA-CP", "12-1.0", <<"Monomer", " ", "A", " ", "H2O", " ", "-", " ", "Na">>>>,
     <<"-monoB-CP", "12-1.0", <<"Monomer", " ", "B", " ", "H2O", " ", "-", " ", "Na">>>>,
     <<"", "12-1.2", <<" ", "H2O", " ", "Na", " ", "R=", "1.2">>>>,
     <<"-dimer", "12-1.2", <<"Dimer", " ", "from", " ", "H2O", " ", "-", " ", "Na">>>>,
     <<"-monoA-CP", "12-1.2", <<"Monomer", " ", "A", " ", "H2O", " ", "-", " ", "Na">>>>,
     <<"-monoB-CP", "12-1.2", <<"Monomer", " ", "B", " ", "H2O", " ", "-", " ", "Na">>>>,
     <<"", "12-1.5", <<" ", "H2O", " ", "Na", " ", "R=", "1.5">>>>,
     <<"-dimer", "12-1.5", <<"Dimer", " ", "from", " ", "H2O", " ", "-", " ", "Na">>>>,
     <<"-monoA-CP", "12-1.5", <<"Monomer", " ", "A", " ", "H2O", " ", "-", " ", "Na">>>>,
     <<"-monoB-CP", "12-1.5", <<"Monomer", " ", "B", " ", "H2O", " ", "-", " ", "Na">>>>,
     <<"", "12-2.0", <<" ", "H2O", " ", "Na", " ", "R=", "2.0">>>>,
     <<"-dimer", "12-2.0", <<"Dimer", " ", "from", " ", "H2O", " ", "-", " ", "Na">>>>,
     <<"-monoA-CP", "12-2.0", <<"Monomer", " ", "A", " ", "H2O", " ", "-", " ", "Na">>>>,
     <<"-monoB-CP", "12-2.0", <<"Monomer", " ", "B", " ", "H2O", " ", "-", " ", "Na">>>> >>

TAGL_LIT_13 ==
  << <<"", "13-0.9", <<" ", "H2O", " ", "OH", " ", "R=", "0.9">>>>,
     <<"-dimer", "13-0.9", <<"Dimer", " ", "from", " ", "H2O", " ", "-", " ", "OH">>>>,
     <<"-monoA-CP", "13-0.9", <<"Monomer", " ", "A", " ", "H2O", " ", "-", " ", "OH">>>>,
     <<"-monoB-CP", "13-0.9", <<"Monomer", " ", "B", " ", "H2O", " ", "-", " ", "OH">>>>,
     <<"", "13-1.0", <<" ", "H2O", " ", "OH", " ">>>>,
     <<"-dimer", "13-1.0", <<"Dimer", " ", "from", " ", "H2O", " ", "-", " ", "OH">>>>,
     <<"-monoA-CP", "13-1.0", <<"Monomer", " ", "A", " ", "H2O", " ", "-", " ", "OH">>>>,
     <<"-monoB-CP", "13-1.0", <<"Monomer", " ", "B", " ", "H2O", " ", "-", " ", "OH">>>>,
     <<"", "13-1.2", <<" ", "H2O", " ", "OH", " ", "R=", "1.2">>>>,
     <<"-dimer", "13-1.2", <<"Dimer", " ", "from", " ", "H2O", " ", "-", " ", "OH">>>>,
     <<"-monoA-CP", "13-1.2", <<"Monomer", " ", "A", " ", "H2O", " ", "-", " ", "OH">>>>,
     <<"-monoB-CP", "13-1.2", <<"Monomer", " ", "B", " ", "H2O", " ", "-", " ", "OH">>>>,
     <<"", "13-1.5", <<" ", "H2O", " ", "OH", " ", "R=", "1.5">>>>,
     <<"-dimer", "13-1.5", <<"Dimer", " ", "from", " ", "H2O", " ", "-", " ", "OH">>>>,
     <<"-monoA-CP", "13-1.5", <<"Monomer", " ", "A", " ", "H2O", " ", "-", " ", "OH">>>>,
     <<"-monoB-CP", "13-1.5", <<"Monomer", " ", "B", " ", "H2O", " ", "-", " ", "OH">>>>,
     <<"", "13-2.0", <<" ", "H2O", " ", "OH", " ", "R=", "1.5">>>>,
     <<"-dimer", "13-2.0", <<"Dimer", " ", "from", " ", "H2O", " ", "-", " ", "OH">>>>,
     <<"-monoA-CP", "13-2.0", <<"Monomer", " ", "A", " ", "H2O", " ", "-", " ", "OH">>>>,
     <<"-monoB-CP", "13-2.0", <<"Monomer", " ", "B", " ", "H2O", " ", "-", " ", "OH">>>> >>

TAGL_LIT_14 ==
  << <<"", "14-0.9", <<" ", "H2O", " ", "O2H", " ", "R=", "0.9">>>>,
     <<"-dimer", "14-0.9", <<"Dimer", " ", "from", " ", "H2O", " ", "-", " ", "O2H">>>>,
     <<"-monoA-CP", "14-0.9", <<"Monomer", " ", "A", " ", "H2O", " ", "-", " ", "O2H">>>>,
     <<"-monoB-CP", "14-0.9", <<"Monomer", " ", "B", " ", "H2O", " ", "-", " ", "O2H">>>>,
     <<"", "14-1.0", <<" ", "H2O", " ", "O2H", " ", "R=", "1.0">>>>,
     <<"-dimer", "14-1.0", <<"Dimer", " ", "from", " ", "H2O", " ", "-", " ", "O2H">>>>,
     <<"-monoA-CP", "14-1.0", <<"Monomer", " ", "A", " ", "H2O", " ", "-", " ", "O2H">>>>,
     <<"-monoB-CP", "14-1.0", <<"Monomer", " ", "B", " ", "H2O", " ", "-", " ", "O2H">>>>,
     <<"", "14-1.2", <<" ", "H2O", " ", "O2H", " ", "R=", "1.2">>>>,
     <<"-dimer", "14-1.2", <<"Dimer", " ", "from", " ", "H2O", " ", "-", " ", "O2H">>>>,
     <<"-monoA-CP", "14-1.2", <<"Monomer", " ", "A", " ", "H2O", " ", "-", " ", "O2H">>>>,
     <<"-monoB-CP", "14-1.2", <<"Monomer", " ", "B", " ", "H2O", " ", "-", " ", "O2H">>>>,
     <<"", "14-1.5", <<" ", "H2O", " ", "O2H", " ", "R=", "1.5">>>>,
     <<"-dimer", "14-1.5", <<"Dimer", " ", "from", " ", "H2O", " ", "-", " ", "O2H">>>>,
     <<"-monoA-CP", "14-1.5", <<"Monomer", " ", "A", " ", "H2O", " ", "-", " ", "O2H">>>>,
     <<"-monoB-CP", "14-1.5", <<"Monomer", " ", "B", " ", "H2O", " ", "-", " ", "O2H">>>>,
     <<"", "14-2.0", <<" ", "H2O", " ", "O2H", " ", "R=", "2.0">>>>,
     <<"-dimer", "14-2.0", <<"Dimer", " ", "from", " ", "H2O", " ", "-", " ", "O2H">>>>,
     <<"-monoA-CP", "14-2.0", <<"Monomer", " ", "A", " ", "H2O", " ", "-", " ", "O2H">>>>,
     <<"-monoB-CP", "14-2.0", <<"Monomer", " ", "B", " ", "H2O", " ", "-", " ", "O2H">>>> >>

TAGL_LIT_15 ==
  << <<"", "15-0.9", <<" ", "Li", " ", "NH3", " ", "(gm)", " ", "R=", "0.9">>>>,
     <<"-dimer", "15-0.9", <<"Dimer", " ", "from", " ", "Li", " ", "NH3", " ", "(gm)">>>>,
     <<"-monoA-CP", "15-0.9", <<"Monomer", " ", "A", " ", "Li", " ", "NH3", " ", "(gm)">>>>,
     <<"-monoB-CP", "15-0.9", <<"Monomer", " ", "B", " ", "Li", " ", "NH3", " ", "(gm)">>>>,
     <<"", "15-1.0", <<" ", "Li", " ", "NH3", " ", "(gm)", " ", "R=", "1.0">>>>,
     <<"-dimer", "15-1.0", <<"Dimer", " ", "from", " ", "Li", " ", "-", " ", "NH3", " ", "(gm)">>>>,
     <<"-monoA-CP", "15-1.0", <<"Monomer", " ", "A", " ", "Li", " ", "-", " ", "NH3", " ", "(gm)">>>>,
     <<"-monoB-CP", "15-1.0", <<"Monomer", " ", "B", " ", "Li", " ", "-", " ", "NH3", " ", "(gm">>>>,
     <<"", "15-1.2", <<" ", "Li", " ", "NH3", " ", "(gm)", " ", "R=", "1.2">>>>,
     <<"-dimer", "15-1.2", <<"Dimer", " ", "from", " ", "Li", " ", "-", " ", "NH3", " ", "(gm)">>>>,
     <<"-monoA-CP", "15-1.2", <<"Monomer", " ", "A", " ", "Li", " ", "-", " ", "NH3", " ", "(gm)">>>>,
     <<"-monoB-CP", "15-1.2", <<"Monomer", " ", "B", " ", "Li", " ", "-", " ", "NH3", " ", "(gm)">>>>,
     <<"", "15-1.5", <<" ", "Li", " ", "NH3", " ", "(gm)", " ", "R=", "1.5">>>>,
     <<"-dimer", "15-1.5", <<"Dimer", " ", "from", " ", "Li", " ", "-", " ", "NH3", " ", "(gm)">>>>,
     <<"-monoA-CP", "15-1.5", <<"Monomer", " ", "A", " ", "Li", " ", "-", " ", "NH3", " ", "(gm)">>>>,
     <<"-monoB-CP", "15-1.5", <<"Monomer", " ", "B", " ", "Li", " ", "-", " ", "NH3", " ", "(gm)">>>>,
     <<"", "15-2.0", <<" ", "Li", " ", "NH3", " ", "(gm)", " ", "R=", "2.0">>>>,
     <<"-dimer", "15-2.0", <<"Dimer", " ", "from", " ", "Li", " ", "NH3", " ", "(gm)">>>>,
     <<"-monoA-CP", "15-2.0", <<"Monomer", " ", "A", " ", "Li", " ", "NH3", " ", "(gm)">>>>,
     <<"-monoB-CP", "15-2.0", <<"Monomer", " ", "B", " ", "Li", " ", "NH3", " ", "(gm)">>>> >>

TAGL_LIT_16 ==
  << <<"", "16-0.9", <<" ", "Li", " ", "O2", " ", "R=", "0.9">>>>,
     <<"-dimer", "16-0.9", <<"Dimer", " ", "from", " ", "Li", " ", "-", " ", "O2">>>>,
     <<"-monoA-CP", "16-0.9", <<"Monomer", " ", "A", " ", "Li", " ", "-", " ", "O2">>>>,
     <<"-monoB-CP", "16-0.9", <<"Monomer", " ", "B", " ", "Li", " ", "-", " ", "O2">>>>,
     <<"", "16-1.0", <<" ", "Li", " ", "O2", " ", "R=", "1.0">>>>,
     <<"-dimer", "16-1.0", <<"Dimer", " ", "from", " ", "Li", " ", "-", " ", "O2">>>>,
     <<"-monoA-CP", "16-1.0", <<"Monomer", " ", "A", " ", "Li", " ", "-", " ", "O2">>>>,
     <<"-monoB-CP", "16-1.0", <<"Monomer", " ", "B", " ", "Li", " ", "-", " ", "O2">>>>,
     <<"", "16-1.2", <<" ", "Li", " ", "O2", " ", "R=", "1.2">>>>,
     <<"-dimer", "16-1.2", <<"Dimer", " ", "from", " ", "Li", " ", "-", " ", "O2">>>>,
     <<"-monoA-CP", "16-1.2", <<"Monomer", " ", "A", " ", "Li", " ", "-", " ", "O2">>>>,
     <<"-monoB-CP", "16-1.2", <<"Monomer", " ", "B", " ", "Li", " ", "-", " ", "O2">>>>,
     <<"", "16-1.5", <<" ", "Li", " ", "O2", " ", "R=", "1.5">>>>,
     <<"-dimer", "16-1.5", <<"Dimer", " ", "from", " ", "Li", " ", "-", " ", "O2">>>>,
     <<"-monoA-CP", "16-1.5", <<"Monomer", " ", "A", " ", "Li", " ", "-", " ", "O2">>>>,
     <<"-monoB-CP", "16-1.5", <<"Monomer", " ", "B", " ", "Li", " ", "-", " ", "O2">>>>,
     <<"", "16-2.0", <<" ", "Li", " ", "O2", " ", "R=", "2.0">>>>,
     <<"-dimer", "16-2.0", <<"Dimer", " ", "from", " ", "Li", " ", "-", " ", "O2">>>>,
     <<"-monoA-CP", "16-2.0", <<"Monomer", " ", "A", " ", "Li", " ", "-", " ", "O2">>>>,
     <<"-monoB-CP", "16-2.0", <<"Monomer", " ", "B", " ", "Li", " ", "-", " ", "O2">>>> >>

TAGL_LIT_17 ==
  << <<"", "17-0.9", <<" ", "CN", " ", "H2", " ", "R=", "0.9">>>>,
     <<"-dimer", "17-0.9", <<"Dimer", " ", "from", " ", "CN", " ", "-", " ", "H2">>>>,
     <<"-monoA-CP", "17-0.9", <<"Monomer", " ", "A", " ", "CN", " ", "-", " ", "H2">>>>,
     <<"-monoB-CP", "17-0.9", <<"Monomer", " ", "B", " ", "CN", " ", "-", " ", "H2">>>>,
     <<"", "17-1.0", <<" ", "CN", " ", "H2", " ", "R=", "1.0">>>>,
     <<"-dimer", "17-1.0", <<"Dimer", " ", "from", " ", "CN", " ", "-", " ", "H2">>>>,
     <<"-monoA-CP", "17-1.0", <<"Monomer", " ", "A", " ", "CN", " ", "-", " ", "H2">>>>,
     <<"-monoB-CP", "17-1.0", <<"Monomer", " ", "B", " ", "CN", " ", "-", " ", "H2">>>>,
     <<"", "17-1.2", <<" ", "CN", " ", "H2", " ", "R=", "1.2">>>>,
     <<"-dimer", "17-1.2", <<"Dimer", " ", "from", " ", "CN", " ", "-", " ", "H2">>>>,
     <<"-monoA-CP", "17-1.2", <<"Monomer", " ", "A", " ", "CN", " ", "-", " ", "H2">>>>,
     <<"-monoB-CP", "17-1.2", <<"Monomer", " ", "B", " ", "CN", " ", "-", " ", "H2">>>>,
     <<"", "17-1.5", <<" ", "CN", " ", "H2", " ", "R=", "1.5">>>>,
     <<"-dimer", "17-1.5", <<"Dimer", " ", "from", " ", "CN", " ", "-", " ", "H2">>>>,
     <<"-monoA-CP", "17-1.5", <<"Monomer", " ", "A", " ", "CN", " ", "-", " ", "H2">>>>,
     <<"-monoB-CP", "17-1.5", <<"Monomer", " ", "B", " ", "CN", " ", "-", " ", "H2">>>>,
     <<"", "17-2.0", <<" ", "CN", " ", "H2", " ", "R=", "2.0">>>>,
     <<"-dimer", "17-2.0", <<"Dimer", " ", "from", " ", "CN", " ", "-", " ", "H2">>>>,
     <<"-monoA-CP", "17-2.0", <<"Monomer", " ", "A", " ", "CN", " ", "-", " ", "H2">>>>,
     <<"-monoB-CP", "17-2.0", <<"Monomer", " ", "B", " ", "CN", " ", "-", " ", "H2">>>> >>

TAGL_LIT_18 ==
  << <<"", "18-0.9", <<" ", "Li", " ", "NH3", " ", "(lm)", " ", "R=", "0.9">>>>,
     <<"-dimer", "18-0.9", <<"Dimer", " ", "from", " ", "Li", " ", "NH3", " ", "(lm)">>>>,
     <<"-monoA-CP", "18-0.9", <<"Monomer", " ", "A", " ", "Li", " ", "NH3", " ", "(lm)">>>>,
     <<"-monoB-CP", "18-0.9", <<"Monomer", " ", "B", " ", "Li", " ", "NH3", " ", "(lm)">>>>,
     <<"", "18-1.0", <<" ", "Li", " ", "NH3", " ", "(lm)", " ", "R=", "1.0">>>>,
     <<"-dimer", "18-1.0", <<"Dimer", " ", "from", " ", "Li", " ", "NH3", " ", "(lm)">>>>,
     <<"-monoA-CP", "18-1.0", <<"Monomer", " ", "A", " ", "Li", " ", "NH3", " ", "(lm)">>>>,
     <<"-monoB-CP", "18-1.0", <<"Monomer", " ", "B", " ", "Li", " ", "NH3", " ", "(lm)">>>>,
     <<"", "18-1.2", <<" ", "Li", " ", "NH3", " ", "(lm)", " ", "R=", "1.2">>>>,
     <<"-dimer", "18-1.2", <<"Dimer", " ", "from", " ", "Li", " ", "NH3", " ", "(lm)">>>>,
     <<"-monoA-CP", "18-1.2", <<"Monomer", " ", "A", " ", "Li", " ", "NH3", " ", "(lm)">>>>,
     <<"-monoB-CP", "18-1.2", <<"Monomer", " ", "B", " ", "Li", " ", "NH3", " ", "(lm)">>>>,
     <<"", "18-1.5", <<" ", "Li", " ", "NH3", " ", "(lm)", " ", "R=", "1.5">>>>,
     <<"-dimer", "18-1.5", <<"Dimer", " ", "from", " ", "Li", " ", "NH3", " ", "(lm)">>>>,
     <<"-monoA-CP", "18-1.5", <<"Monomer", " ", "A", " ", "Li", " ", "NH3", " ", "(lm)">>>>,
     <<"-monoB-CP", "18-1.5", <<"Monomer", " ", "B", " ", "Li", " ", "NH3", " ", "(lm)">>>>,
     <<"", "18-2.0", <<" ", "Li", " ", "NH3", " ", "(lm)", " ", "R=", "2.0">>>>,
     <<"-dimer", "18-2.0", <<"Dimer", " ", "from", " ", "Li", " ", "NH3", " ", "(lm)">>>>,
     <<"-monoA-CP", "18-2.0", <<"Monomer", " ", "A", " ", "Li", " ", "NH3", " ", "(lm)">>>>,
     <<"-monoB-CP", "18-2.0", <<"Monomer", " ", "B", " ", "Li", " ", "NH3", " ", "(lm)">>>> >>

TAGL_LIT_19 ==
  << <<"", "19-0.9", <<" ", "H2O", " ", "O2", " ", "(gm)", " ", "R=", "0.9">>>>,
     <<"-dimer", "19-0.9", <<"Dimer", " ", "from", " ", "H2O", " ", "-", " ", "O2", " ", "(gm)">>>>,
     <<"-monoA-CP", "19-0.9", <<"Monomer", " ", "A", " ", "H2O", " ", "-", " ", "O2", " ", "(gm)">>>>,
     <<"-monoB-CP", "19-0.9", <<"Monomer", " ", "B", " ", "H2O", " ", "-", " ", "O2", " ", "(gm)">>>>,
     <<"", "19-1.0", <<" ", "H2O", " ", "O2", " ", "(gm)", " ", "R=", "1.0">>>>,
     <<"-dimer", "19-1.0", <<"Dimer", " ", "from", " ", "H2O", " ", "-", " ", "O2", " ", "(gm)">>>>,
     <<"-monoA-CP", "19-1.0", <<"Monomer", " ", "A", " ", "H2O", " ", "-", " ", "O2", " ", "(gm)">>>>,
     <<"-monoB-CP", "19-1.0", <<"Monomer", " ", "B", " ", "H2O", " ", "-", " ", "O2", " ", "(gm)">>>>,
     <<"", "19-1.2", <<" ", "H2O", " ", "O2", " ", "(gm)", " ", "R=", "1.2">>>>,
     <<"-dimer", "19-1.2", <<"Dimer", " ", "from", " ", "H2O", " ", "-", " ", "O2", " ", "(gm)">>>>,
     <<"-monoA-CP", "19-1.2", <<"Monomer", " ", "A", " ", "H2O", " ", "-", " ", "O2", " ", "(gm)">>>>,
     <<"-monoB-CP", "19-1.2", <<"Monomer", " ", "B", " ", "H2O", " ", "-", " ", "O2", " ", "(gm)">>>>,
     <<"", "19-1.5", <<" ", "H2O", " ", "O2", " ", "(gm)", " ", "R=", "1.5">>>>,
     <<"-dimer", "19-1.5", <<"Dimer", " ", "from", " ", "H2O", " ", "-", " ", "O2", " ", "(gm)">>>>,
     <<"-monoA-CP", "19-1.5", <<"Monomer", " ", "A", " ", "H2O", " ", "-", " ", "O2", " ", "(gm)">>>>,
     <<"-monoB-CP", "19-1.5", <<"Monomer", " ", "B", " ", "H2O", " ", "-", " ", "O2", " ", "(gm)">>>>,
     <<"", "19-2.0", <<" ", "H2O", " ", "O2", " ", "(gm)", " ", "R=", "2.0">>>>,
     <<"-dimer", "19-2.0", <<"Dimer", " ", "from", " ", "H2O", " ", "-", " ", "O2", " ", "(gm)">>>>,
     <<"-monoA-CP", "19-2.0", <<"Monomer", " ", "A", " ", "H2O", " ", "-", " ", "O2", " ", "(gm)">>>>,
     <<"-monoB-CP", "19-2.0", <<"Monomer", " ", "B", " ", "H2O", " ", "-", " ", "O2", " ", "(gm)">>>> >>

\* TAGL_LIT_20 with the tag of 20-2.0 naming the system of reaction 18.
TAGL_LIT_20_OtherSystem ==
  << <<"", "20-0.9", <<" ", "Na", " ", "Li", " ", "R=", "0.9">>>>,
     <<"-dimer", "20-0.9", <<"Dimer", " ", "from", " ", "Na", " ", "-", " ", "Li">>>>,
     <<"-monoA-CP", "20-0.9", <<"Monomer", " ", "A", " ", "Na", " ", "-", " ", "Li">>>>,
     <<"-monoB-CP", "20-0.9", <<"Monomer", " ", "B", " ", "Na", " ", "-", " ", "Li">>>>,
     <<"", "20-1.0", <<" ", "Na", " ", "Li", " ", "R=", "1.0">>>>,
     <<"-dimer", "20-1.0", <<"Dimer", " ", "from", " ", "Na", " ", "-", " ", "Li">>>>,
     <<"-monoA-CP", "20-1.0", <<"Monomer", " ", "A", " ", "Na", " ", "-", " ", "Li">>>>,
     <<"-monoB-CP", "20-1.0", <<"Monomer", " ", "B", " ", "Na", " ", "-", " ", "Li">>>>,
     <<"", "20-1.2", <<" ", "Na", " ", "Li", " ", "R=", "1.2">>>>,
     <<"-dimer", "20-1.2", <<"Dimer", " ", "from", " ", "Na", " ", "-", " ", "Li">>>>,
     <<"-monoA-CP", "20-1.2", <<"Monomer", " ", "A", " ", "Na", " ", "-", " ", "Li">>>>,
     <<"-monoB-CP", "20-1.2", <<"Monomer", " ", "B", " ", "Na", " ", "-", " ", "Li">>>>,
     <<"", "20-1.5", <<" ", "Na", " ", "Li", " ", "R=", "1.5">>>>,
     <<"-dimer", "20-1.5", <<"Dimer", " ", "from", " ", "Na", " ", "-", " ", "Li">>>>,
     <<"-monoA-CP", "20-1.5", <<"Monomer", " ", "A", " ", "Na", " ", "-", " ", "Li">>>>,
     <<"-monoB-CP", "20-1.5", <<"Monomer", " ", "B", " ", "Na", " ", "-", " ", "Li">>>>,
     <<"", "20-2.0", <<" ", "Li", " ", "NH3", " ">>>>,
     <<"-dimer", "20-2.0", <<"Dimer", " ", "from", " ", "Na", " ", "-", " ", "Li">>>>,
     <<"-monoA-CP", "20-2.0", <<"Monomer", " ", "A", " ", "Na", " ", "-", " ", "Li">>>>,
     <<"-monoB-CP", "20-2.0", <<"Monomer", " ", "B", " ", "Na", " ", "-", " ", "Li">>>> >>

TAGL_LIT_20 ==
  << <<"", "20-0.9", <<" ", "Na", " ", "Li", " ", "R=", "0.9">>>>,
     <<"-dimer", "20-0.9", <<"Dimer", " ", "from", " ", "Na", " ", "-", " ", "Li">>>>,
     <<"-monoA-CP", "20-0.9", <<"Monomer", " ", "A", " ", "Na", " ", "-", " ", "Li">>>>,
     <<"-monoB-CP", "20-0.9", <<"Monomer", " ", "B", " ", "Na", " ", "-", " ", "Li">>>>,
     <<"", "20-1.0", <<" ", "Na", " ", "Li", " ", "R=", "1.0">>>>,
     <<"-dimer", "20-1.0", <<"Dimer", " ", "from", " ", "Na", " ", "-", " ", "Li">>>>,
     <<"-monoA-CP", "20-1.0", <<"Monomer", " ", "A", " ", "Na", " ", "-", " ", "Li">>>>,
     <<"-monoB-CP", "20-1.0", <<"Monomer", " ", "B", " ", "Na", " ", "-", " ", "Li">>>>,
     <<"", "20-1.2", <<" ", "Na", " ", "Li", " ", "R=", "1.2">>>>,
     <<"-dimer", "20-1.2", <<"Dimer", " ", "from", " ", "Na", " ", "-", " ", "Li">>>>,
     <<"-monoA-CP", "20-1.2", <<"Monomer", " ", "A", " ", "Na", " ", "-", " ", "Li">>>>,
     <<"-monoB-CP", "20-1.2", <<"Monomer", " ", "B", " ", "Na", " ", "-", " ", "Li">>>>,
     <<"", "20-1.5", <<" ", "Na", " ", "Li", " ", "R=", "1.5">>>>,
     <<"-dimer", "20-1.5", <<"Dimer", " ", "from", " ", "Na", " ", "-", " ", "Li">>>>,
     <<"-monoA-CP", "20-1.5", <<"Monomer", " ", "A", " ", "Na", " ", "-", " ", "Li">>>>,
     <<"-monoB-CP", "20-1.5", <<"Monomer", " ", "B", " ", "Na", " ", "-", " ", "Li">>>>,
     <<"", "20-2.0", <<" ", "Na", " ", "Li", " ">>>>,
     <<"-dimer", "20-2.0", <<"Dimer", " ", "from", " ", "Na", " ", "-", " ", "Li">>>>,
     <<"-monoA-CP", "20-2.0", <<"Monomer", " ", "A", " ", "Na", " ", "-", " ", "Li">>>>,
     <<"-monoB-CP", "20-2.0", <<"Monomer", " ", "B", " ", "Na", " ", "-", " ", "Li">>>> >>

TAGL_LIT_21 ==
  << <<"", "21-0.9", <<" ", "CO2", " ", "O2", " ", "R=", "0.9">>>>,
     <<"-dimer", "21-0.9", <<"Dimer", " ", "from", " ", "CO2", " ", "-", " ", "O2">>>>,
     <<"-monoA-CP", "21-0.9", <<"Monomer", " ", "A", " ", "CO2", " ", "-", " ", "O2">>>>,
     <<"-monoB-CP", "21-0.9", <<"Monomer", " ", "B", " ", "CO2", " ", "-", " ", "O2">>>>,
     <<"", "21-1.0", <<" ", "CO2", " ", "O2", " ", "R=", "1.0">>>>,
     <<"-dimer", "21-1.0", <<"Dimer", " ", "from", " ", "CO2", " ", "-", " ", "O2">>>>,
     <<"-monoA-CP", "21-1.0", <<"Monomer", " ", "A", " ", "CO2", " ", "-", " ", "O2">>>>,
     <<"-monoB-CP", "21-1.0", <<"Monomer", " ", "B", " ", "CO2", " ", "-", " ", "O2">>>>,
     <<"", "21-1.2", <<" ", "CO2", " ", "O2", " ", "R=", "1.2">>>>,
     <<"-dimer", "21-1.2", <<"Dimer", " ", "from", " ", "CO2", " ", "-", " ", "O2">>>>,
     <<"-monoA-CP", "21-1.2", <<"Monomer", " ", "A", " ", "CO2", " ", "-", " ", "O2">>>>,
     <<"-monoB-CP", "21-1.2", <<"Monomer", " ", "B", " ", "CO2", " ", "-", " ", "O2">>>>,
     <<"", "21-1.5", <<" ", "CO2", " ", "O2", " ", "R=", "1.5">>>>,
     <<"-dimer", "21-1.5", <<"Dimer", " ", "from", " ", "CO2", " ", "-", " ", "O2">>>>,
     <<"-monoA-CP", "21-1.5", <<"Monomer", " ", "A", " ", "CO2", " ", "-", " ", "O2">>>>,
     <<"-monoB-CP", "21-1.5", <<"Monomer", " ", "B", " ", "CO2", " ", "-", " ", "O2">>>>,
     <<"", "21-2.0", <<" ", "CO2", " ", "-", " ", "O2", " ", "R=", "2.0">>>>,
     <<"-dimer", "21-2.0", <<"Dimer", " ", "from", " ", "CO2", " ", "-", " ", "O2">>>>,
     <<"-monoA-CP", "21-2.0", <<"Monomer", " ", "A", " ", "CO2", " ", "-", " ", "O2">>>>,
     <<"-monoB-CP", "21-2.0", <<"Monomer", " ", "B", " ", "CO2", " ", "-", " ", "O2">>>> >>

TAGL_LIT_22 ==
  << <<"", "22-0.9", <<" ", "C2H3", " ", "CO2", " ", "R=", "0.9">>>>,
     <<"-dimer", "22-0.9", <<"Dimer", " ", "from", " ", "C2H3", " ", "-", " ", "CO2">>>>,
     <<"-monoA-CP", "22-0.9", <<"Monomer", " ", "A", " ", "C2H3", " ", "-", " ", "CO2">>>>,
     <<"-monoB-CP", "22-0.9", <<"Monomer", " ", "B", " ", "C2H3", " ", "-", " ", "CO2">>>>,
     <<"", "22-1.0", <<" ", "C2H3", " ", "CO2", " ", "R=", "1.0">>>>,
     <<"-dimer", "22-1.0", <<"Dimer", " ", "from", " ", "C2H3", " ", "-", " ", "CO2">>>>,
     <<"-monoA-CP", "22-1.0", <<"Monomer", " ", "A", " ", "C2H3", " ", "-", " ", "CO2">>>>,
     <<"-monoB-CP", "22-1.0", <<"Monomer", " ", "B", " ", "C2H3", " ", "-", " ", "CO2">>>>,
     <<"", "22-1.2", <<" ", "C2H3", " ", "CO2", " ", "R=", "1.2">>>>,
     <<"-dimer", "22-1.2", <<"Dimer", " ", "from", " ", "C2H3", " ", "-", " ", "CO2">>>>,
     <<"-monoA-CP", "22-1.2", <<"Monomer", " ", "A", " ", "C2H3", " ", "-", " ", "CO2">>>>,
     <<"-monoB-CP", "22-1.2", <<"Monomer", " ", "B", " ", "C2H3", " ", "-", " ", "CO2">>>>,
     <<"", "22-1.5", <<" ", "C2H3", " ", "CO2", " ", "R=", "1.5">>>>,
     <<"-dimer", "22-1.5", <<"Dimer", " ", "from", " ", "C2H3", " ", "-", " ", "CO2">>>>,
     <<"-monoA-CP", "22-1.5", <<"Monomer", " ", "A", " ", "C2H3", " ", "-", " ", "CO2">>>>,
     <<"-monoB-CP", "22-1.5", <<"Monomer", " ", "B", " ", "C2H3", " ", "-", " ", "CO2">>>>,
     <<"", "22-2.0", <<" ", "C2H3", " ", "CO2", " ", "R=", "2.0">>>>,
     <<"-dimer", "22-2.0", <<"Dimer", " ", "from", " ", "C2H3", " ", "-", " ", "CO2">>>>,
     <<"-monoA-CP", "22-2.0", <<"Monomer", " ", "A", " ", "C2H3", " ", "-", " ", "CO2">>>>,
     <<"-monoB-CP", "22-2.0", <<"Monomer", " ", "B", " ", "C2H3", " ", "-", " ", "CO2">>>> >>

TAGL_LIT_23 ==
  << <<"", "23-0.9", <<" ", "He*", " ", "He*", " ", "R=", "0.9">>>>,
     <<"-dimer", "23-0.9", <<"Dimer", " ", "from", " ", "He*", " ", "-", " ", "He*">>>>,
     <<"-monoA-CP", "23-0.9", <<"Monomer", " ", "A", " ", "He*", " ", "-", " ", "He*">>>>,
     <<"-monoB-CP", "23-0.9", <<"Monomer", " ", "B", " ", "He*", " ", "-", " ", "He*">>>>,
     <<"", "23-1.0", <<" ", "He*", " ", "He*", " ", "R=", "1.0">>>>,
     <<"-dimer", "23-1.0", <<"Dimer", " ", "from", " ", "He*", " ", "-", " ", "He*">>>>,
     <<"-monoA-CP", "23-1.0", <<"Monomer", " ", "A", " ", "He*", " ", "-", " ", "He*">>>>,
     <<"-monoB-CP", "23-1.0", <<"Monomer", " ", "B", " ", "He*", " ", "-", " ", "He*">>>>,
     <<"", "23-1.2", <<" ", "He*", " ", "He*", " ", "R=", "1.2">>>>,
     <<"-dimer", "23-1.2", <<"Dimer", " ", "from", " ", "He*", " ", "-", " ", "He*">>>>,
     <<"-monoA-CP", "23-1.2", <<"Monomer", " ", "A", " ", "He*", " ", "-", " ", "He*">>>>,
     <<"-monoB-CP", "23-1.2", <<"Monomer", " ", "B", " ", "He*", " ", "-", " ", "He*">>>>,
     <<"", "23-1.5", <<" ", "He*", " ", "He*", " ", "R=", "1.5">>>>,
     <<"-dimer", "23-1.5", <<"Dimer", " ", "from", " ", "He*", " ", "-", " ", "He*">>>>,
     <<"-monoA-CP", "23-1.5", <<"Monomer", " ", "A", " ", "He*", " ", "-", " ", "He*">>>>,
     <<"-monoB-CP", "23-1.5", <<"Monomer", " ", "B", " ", "He*", " ", "-", " ", "He*">>>>,
     <<"", "23-2.0", <<" ", "He*", " ", "He*", " ", "R=", "2.0">>>>,
     <<"-dimer", "23-2.0", <<"Dimer", " ", "from", " ", "He*", " ", "-", " ", "He*">>>>,
     <<"-monoA-CP", "23-2.0", <<"Monomer", " ", "A", " ", "He*", " ", "-", " ", "He*">>>>,
     <<"-monoB-CP", "23-2.0", <<"Monomer", " ", "B", " ", "He*", " ", "-", " ", "He*">>>> >>

TAGL_LIT_24 ==
  << <<"", "24-0.9", <<" ", "HF", " ", "CO+", " ", "R=", "0.9">>>>,
     <<"-dimer", "24-0.9", <<"Dimer", " ", "from", " ", "HF", " ", "-", " ", "CO+">>>>,
     <<"-monoA-CP", "24-0.9", <<"Monomer", " ", "A", " ", "HF", " ", "-", " ", "CO+">>>>,
     <<"-monoB-CP", "24-0.9", <<"Monomer", " ", "B", " ", "HF", " ", "-", " ", "CO+">>>>,
     <<"", "24-1.0", <<" ", "HF", " ", "CO+", " ", "R=", "1.0">>>>,
     <<"-dimer", "24-1.0", <<"Dimer", " ", "from", " ", "HF", " ", "-", " ", "CO+">>>>,
     <<"-monoA-CP", "24-1.0", <<"Monomer", " ", "A", " ", "HF", " ", "-", " ", "CO+">>>>,
     <<"-monoB-CP", "24-1.0", <<"Monomer", " ", "B", " ", "HF", " ", "-", " ", "CO+">>>>,
     <<"", "24-1.2", <<" ", "HF", " ", "CO+", " ", "R=", "1.2">>>>,
     <<"-dimer", "24-1.2", <<"Dimer", " ", "from", " ", "HF", " ", "-", " ", "CO+">>>>,
     <<"-monoA-CP", "24-1.2", <<"Monomer", " ", "A", " ", "HF", " ", "-", " ", "CO+">>>>,
     <<"-monoB-CP", "24-1.2", <<"Monomer", " ", "B", " ", "HF", " ", "-", " ", "CO+">>>>,
     <<"", "24-1.5", <<" ", "HF", " ", "CO+", " ", "R=", "1.5">>>>,
     <<"-dimer", "24-1.5", <<"Dimer", " ", "from", " ", "HF", " ", "-", " ", "CO+">>>>,
     <<"-monoA-CP", "24-1.5", <<"Monomer", " ", "A", " ", "HF", " ", "-", " ", "CO+">>>>,
     <<"-monoB-CP", "24-1.5", <<"Monomer", " ", "B", " ", "HF", " ", "-", " ", "CO+">>>>,
     <<"", "24-2.0", <<" ", "HF", " ", "CO+", " ", "R=", "2.0">>>>,
     <<"-dimer", "24-2.0", <<"Dimer", " ", "from", " ", "HF", " ", "-", " ", "CO+">>>>,
     <<"-monoA-CP", "24-2.0", <<"Monomer", " ", "A", " ", "HF", " ", "-", " ", "CO+">>>>,
     <<"-monoB-CP", "24-2.0", <<"Monomer", " ", "B", " ", "HF", " ", "-", " ", "CO+">>>> >>

TAGL_LIT ==
  TAGL_LIT_1 \o TAGL_LIT_2 \o TAGL_LIT_3 \o TAGL_LIT_4 \o TAGL_LIT_5 \o TAGL_LIT_6 \o TAGL_LIT_7 \o TAGL_LIT_8
  \o TAGL_LIT_9 \o TAGL_LIT_10 \o TAGL_LIT_11 \o TAGL_LIT_12 \o TAGL_LIT_13 \o TAGL_LIT_14 \o TAGL_LIT_15 \o TAGL_LIT_16
  \o TAGL_LIT_17 \o TAGL_LIT_18 \o TAGL_LIT_19 \o TAGL_LIT_20 \o TAGL_LIT_21 \o TAGL_LIT_22 \o TAGL_LIT_23 \o TAGL_LIT_24

\* GEOS_LIT_1 with the CN fragment of 1-0.9 declared a singlet.
GEOS_LIT_1_ClosedShell ==
  << [key |-> "1-0.9", text |->
       << <<"0", "1">>,
          <<"C", <<-1, 0, 664078525>>, <<1, 0, 0>>, <<1, 1, 259898914>>>>,
          <<"N", <<1, 0, 292558536>>, <<1, 0, 0>>, <<1, 1, 928630081>>>>,
          <<"--">>,
          <<"0", "1">>,
          <<"He", <<1, 0, 149064407>>, <<1, 0, 0>>, <<-1, 1, 619916319>>>>,
          <<"--">>,
          <<"Gh(H)", <<1, 0, 0>>, <<1, 0, 0>>, <<1, 0, 0>>>>,
          <<>>,
          <<"units", "angstrom">>,
          <<"no_reorient">>,
          <<"no_com">>,
          <<"symmetry", "c1">> >>],
     [key |-> "1-1.0", text |->
       << <<"0", "2">>,
          <<"C", <<-1, 0, 680641237>>, <<1, 0, 0>>, <<1, 1, 439889616>>>>,
          <<"N", <<1, 0, 275995824>>, <<1, 0, 0>>, <<1, 2, 108620783>>>>,
          <<"--">>,
          <<"0", "1">>,
          <<"He", <<1, 0, 165627119>>, <<1, 0, 0>>, <<-1, 1, 799907021>>>>,
          <<"--">>,
          <<"Gh(H)", <<1, 0, 0>>, <<1, 0, 0>>, <<1, 0, 0>>>>,
          <<>>,
          <<"units", "angstrom">>,
          <<"no_reorient">>,
          <<"no_com">>,
          <<"symmetry", "c1">> >>],
     [key |-> "1-1.2", text |->
       << <<"0", "2">>,
          <<"C", <<-1, 0, 713766661>>, <<1, 0, 0>>, <<1, 1, 799871020>>>>,
          <<"N", <<1, 0, 242870401>>, <<1, 0, 0>>, <<1, 2, 468602187>>>>,
          <<"--">>,
          <<"0", "1">>,
          <<"He", <<1, 0, 198752542>>, <<1, 0, 0>>, <<-1, 2, 159888425>>>>,
          <<"--">>,
          <<"Gh(H)", <<1, 0, 0>>, <<1, 0, 0>>, <<1, 0, 0>>>>,
          <<>>,
          <<"units", "angstrom">>,
          <<"no_reorient">>,
          <<"no_com">>,
          <<"symmetry", "c1">> >>],
     [key |-> "1-1.5", text |->
       << <<"0", "2">>,
          <<"C", <<-1, 0, 763454796>>, <<1, 0, 0>>, <<1, 2, 339843127>>>>,
          <<"N", <<1, 0, 193182265>>, <<1, 0, 0>>, <<1, 3, 8574293>>>>,
          <<"--">>,
          <<"0", "1">>,
          <<"He", <<1, 0, 248440678>>, <<1, 0, 0>>, <<-1, 2, 699860531>>>>,
          <<"--">>,
          <<"Gh(H)", <<1, 0, 0>>, <<1, 0, 0>>, <<1, 0, 0>>>>,
          <<>>,
          <<"units", "angstrom">>,
          <<"no_reorient">>,
          <<"no_com">>,
          <<"symmetry", "c1">> >>],
     [key |-> "1-2.0", text |->
       << <<"0", "2">>,
          <<"C", <<-1, 0, 846268356>>, <<1, 0, 0>>, <<1, 3, 239796637>>>>,
          <<"N", <<1, 0, 110368706>>, <<1, 0, 0>>, <<1, 3, 908527804>>>>,
          <<"--">>,
          <<"0", "1">>,
          <<"He", <<1, 0, 331254237>>, <<1, 0, 0>>, <<-1, 3, 599814042>>>>,
          <<"--">>,
          <<"Gh(H)", <<1, 0, 0>>, <<1, 0, 0>>, <<1, 0, 0>>>>,
          <<>>,
          <<"units", "angstrom">>,
          <<"no_reorient">>,
          <<"no_com">>,
          <<"symmetry", "c1">> >>] >>

\* GEOS["%s-%s-dimer" % (dbse, key)] = qcdb.Molecule(text): the literal
\* assignments of one reaction, in source order, as [key, text]; a text is
\* the sequence of its lines, a line the sequence of its blank-separated
\* tokens, and a coordinate token s d.ddddddddd is <<sign, units, 10^-9 units>>.
GEOS_LIT_1 ==
  << [key |-> "1-0.9", text |->
       << <<"0", "2">>,
          <<"C", <<-1, 0, 664078525>>, <<1, 0, 0>>, <<1, 1, 259898914>>>>,
          <<"N", <<1, 0, 292558536>>, <<1, 0, 0>>, <<1, 1, 928630081>>>>,
          <<"--">>,
          <<"0", "1">>,
          <<"He", <<1, 0, 149064407>>, <<1, 0, 0>>, <<-1, 1, 619916319>>>>,
          <<"--">>,
          <<"Gh(H)", <<1, 0, 0>>, <<1, 0, 0>>, <<1, 0, 0>>>>,
          <<>>,
          <<"units", "angstrom">>,
          <<"no_reorient">>,
          <<"no_com">>,
          <<"symmetry", "c1">> >>],
     [key |-> "1-1.0", text |->
       << <<"0", "2">>,
          <<"C", <<-1, 0, 680641237>>, <<1, 0, 0>>, <<1, 1, 439889616>>>>,
          <<"N", <<1, 0, 275995824>>, <<1, 0, 0>>, <<1, 2, 108620783>>>>,
          <<"--">>,
          <<"0", "1">>,
          <<"He", <<1, 0, 165627119>>, <<1, 0, 0>>, <<-1, 1, 799907021>>>>,
          <<"--">>,
          <<"Gh(H)", <<1, 0, 0>>, <<1, 0, 0>>, <<1, 0, 0>>>>,
          <<>>,
          <<"units", "angstrom">>,
          <<"no_reorient">>,
          <<"no_com">>,
          <<"symmetry", "c1">> >>],
     [key |-> "1-1.2", text |->
       << <<"0", "2">>,
          <<"C", <<-1, 0, 713766661>>, <<1, 0, 0>>, <<1, 1, 799871020>>>>,
          <<"N", <<1, 0, 242870401>>, <<1, 0, 0>>, <<1, 2, 468602187>>>>,
          <<"--">>,
          <<"0", "1">>,
          <<"He", <<1, 0, 198752542>>, <<1, 0, 0>>, <<-1, 2, 159888425>>>>,
          <<"--">>,
          <<"Gh(H)", <<1, 0, 0>>, <<1, 0, 0>>, <<1, 0, 0>>>>,
          <<>>,
          <<"units", "angstrom">>,
          <<"no_reorient">>,
          <<"no_com">>,
          <<"symmetry", "c1">> >>],
     [key |-> "1-1.5", text |->
       << <<"0", "2">>,
          <<"C", <<-1, 0, 763454796>>, <<1, 0, 0>>, <<1, 2, 339843127>>>>,
          <<"N", <<1, 0, 193182265>>, <<1, 0, 0>>, <<1, 3, 8574293>>>>,
          <<"--">>,
          <<"0", "1">>,
          <<"He", <<1, 0, 248440678>>, <<1, 0, 0>>, <<-1, 2, 699860531>>>>,
          <<"--">>,
          <<"Gh(H)", <<1, 0, 0>>, <<1, 0, 0>>, <<1, 0, 0>>>>,
          <<>>,
          <<"units", "angstrom">>,
          <<"no_reorient">>,
          <<"no_com">>,
          <<"symmetry", "c1">> >>],
     [key |-> "1-2.0", text |->
       << <<"0", "2">>,
          <<"C", <<-1, 0, 846268356>>, <<1, 0, 0>>, <<1, 3, 239796637>>>>,
          <<"N", <<1, 0, 110368706>>, <<1, 0, 0>>, <<1, 3, 908527804>>>>,
          <<"--">>,
          <<"0", "1">>,
          <<"He", <<1, 0, 331254237>>, <<1, 0, 0>>, <<-1, 3, 599814042>>>>,
          <<"--">>,
          <<"Gh(H)", <<1, 0, 0>>, <<1, 0, 0>>, <<1, 0, 0>>>>,
          <<>>,
          <<"units", "angstrom">>,
          <<"no_reorient">>,
          <<"no_com">>,
          <<"symmetry", "c1">> >>] >>

\* GEOS_LIT_2 with the partner of 2-1.0 typed as argon.
GEOS_LIT_2_OtherSpecies ==
  << [key |-> "2-0.9", text |->
       << <<"0", "3">>,
          <<"N", <<1, 0, 0>>, <<-1, 1, 324613470>>, <<-1, 0, 800832434>>>>,
          <<"H", <<1, 0, 0>>, <<-1, 1, 324613470>>, <<1, 0, 235137867>>>>,
          <<"--">>,
          <<"0", "1">>,
          <<"He", <<1, 0, 0>>, <<1, 1, 324613470>>, <<1, 0, 731287250>>>>,
          <<"--">>,
          <<"Gh(H)", <<1, 0, 0>>, <<1, 0, 0>>, <<1, 0, 0>>>>,
          <<>>,
          <<"units", "angstrom">>,
          <<"no_reorient">>,
          <<"no_com">>,
          <<"symmetry", "c1">> >>],
     [key |-> "2-1.0", text |->
       << <<"0", "3">>,
          <<"N", <<1, 0, 0>>, <<-1, 1, 471792745>>, <<-1, 0, 882086573>>>>,
          <<"H", <<1, 0, 0>>, <<-1, 1, 471792745>>, <<1, 0, 153883728>>>>,
          <<"--">>,
          <<"0", "1">>,
          <<"Ar", <<1, 0, 0>>, <<1, 1, 471792745>>, <<1, 0, 812541389>>>>,
          <<"--">>,
          <<"Gh(H)", <<1, 0, 0>>, <<1, 0, 0>>, <<1, 0, 0>>>>,
          <<>>,
          <<"units", "angstrom">>,
          <<"no_reorient">>,
          <<"no_com">>,
          <<"symmetry", "c1">> >>],
     [key |-> "2-1.2", text |->
       << <<"0", "3">>,
          <<"N", <<1, 0, 0>>, <<-1, 1, 766151294>>, <<-1, 1, 44594851>>>>,
          <<"H", <<1, 0, 0>>, <<-1, 1, 766151294>>, <<-1, 0, 8624550>>>>,
          <<"--">>,
          <<"0", "1">>,
          <<"He", <<1, 0, 0>>, <<1, 1, 766151294>>, <<1, 0, 975049667>>>>,
          <<"--">>,
          <<"Gh(H)", <<1, 0, 0>>, <<1, 0, 0>>, <<1, 0, 0>>>>,
          <<>>,
          <<"units", "angstrom">>,
          <<"no_reorient">>,
          <<"no_com">>,
          <<"symmetry", "c1">> >>],
     [key |-> "2-1.5", text |->
       << <<"0", "3">>,
          <<"N", <<1, 0, 0>>, <<-1, 2, 207689117>>, <<-1, 1, 288357268>>>>,
          <<"H", <<1, 0, 0>>, <<-1, 2, 207689117>>, <<-1, 0, 252386967>>>>,
          <<"--">>,
          <<"0", "1">>,
          <<"He", <<1, 0, 0>>, <<1, 2, 207689117>>, <<1, 1, 218812083>>>>,
          <<"--">>,
          <<"Gh(H)", <<1, 0, 0>>, <<1, 0, 0>>, <<1, 0, 0>>>>,
          <<>>,
          <<"units", "angstrom">>,
          <<"no_reorient">>,
          <<"no_com">>,
          <<"symmetry", "c1">> >>],
     [key |-> "2-2.0", text |->
       << <<"0", "3">>,
          <<"N", <<1, 0, 0>>, <<-1, 2, 943585490>>, <<-1, 1, 694627962>>>>,
          <<"H", <<1, 0, 0>>, <<-1, 2, 943585490>>, <<-1, 0, 658657661>>>>,
          <<"--">>,
          <<"0", "1">>,
          <<"He", <<1, 0, 0>>, <<1, 2, 943585490>>, <<1, 1, 625082778>>>>,
          <<"--">>,
          <<"Gh(H)", <<1, 0, 0>>, <<1, 0, 0>>, <<1, 0, 0>>>>,
          <<>>,
          <<"units", "angstrom">>,
          <<"no_reorient">>,
          <<"no_com">>,
          <<"symmetry", "c1">> >>] >>

GEOS_LIT_2 ==
  << [key |-> "2-0.9", text |->
       << <<"0", "3">>,
          <<"N", <<1, 0, 0>>, <<-1, 1, 324613470>>, <<-1, 0, 800832434>>>>,
          <<"H", <<1, 0, 0>>, <<-1, 1, 324613470>>, <<1, 0, 235137867>>>>,
          <<"--">>,
          <<"0", "1">>,
          <<"He", <<1, 0, 0>>, <<1, 1, 324613470>>, <<1, 0, 731287250>>>>,
          <<"--">>,
          <<"Gh(H)", <<1, 0, 0>>, <<1, 0, 0>>, <<1, 0, 0>>>>,
          <<>>,
          <<"units", "angstrom">>,
          <<"no_reorient">>,
          <<"no_com">>,
          <<"symmetry", "c1">> >>],
     [key |-> "2-1.0", text |->
       << <<"0", "3">>,
          <<"N", <<1, 0, 0>>, <<-1, 1, 471792745>>, <<-1, 0, 882086573>>>>,
          <<"H", <<1, 0, 0>>, <<-1, 1, 471792745>>, <<1, 0, 153883728>>>>,
          <<"--">>,
          <<"0", "1">>,
          <<"He", <<1, 0, 0>>, <<1, 1, 471792745>>, <<1, 0, 812541389>>>>,
          <<"--">>,
          <<"Gh(H)", <<1, 0, 0>>, <<1, 0, 0>>, <<1, 0, 0>>>>,
          <<>>,
          <<"units", "angstrom">>,
          <<"no_reorient">>,
          <<"no_com">>,
          <<"symmetry", "c1">> >>],
     [key |-> "2-1.2", text |->
       << <<"0", "3">>,
          <<"N", <<1, 0, 0>>, <<-1, 1, 766151294>>, <<-1, 1, 44594851>>>>,
          <<"H", <<1, 0, 0>>, <<-1, 1, 766151294>>, <<-1, 0, 8624550>>>>,
          <<"--">>,
          <<"0", "1">>,
          <<"He", <<1, 0, 0>>, <<1, 1, 766151294>>, <<1, 0, 975049667>>>>,
          <<"--">>,
          <<"Gh(H)", <<1, 0, 0>>, <<1, 0, 0>>, <<1, 0, 0>>>>,
          <<>>,
          <<"units", "angstrom">>,
          <<"no_reorient">>,
          <<"no_com">>,
          <<"symmetry", "c1">> >>],
     [key |-> "2-1.5", text |->
       << <<"0", "3">>,
          <<"N", <<1, 0, 0>>, <<-1, 2, 207689117>>, <<-1, 1, 288357268>>>>,
          <<"H", <<1, 0, 0>>, <<-1, 2, 207689117>>, <<-1, 0, 252386967>>>>,
          <<"--">>,
          <<"0", "1">>,
          <<"He", <<1, 0, 0>>, <<1, 2, 207689117>>, <<1, 1, 218812083>>>>,
          <<"--">>,
          <<"Gh(H)", <<1, 0, 0>>, <<1, 0, 0>>, <<1, 0, 0>>>>,
          <<>>,
          <<"units", "angstrom">>,
          <<"no_reorient">>,
          <<"no_com">>,
          <<"symmetry", "c1">> >>],
     [key |-> "2-2.0", text |->
       << <<"0", "3">>,
          <<"N", <<1, 0, 0>>, <<-1, 2, 943585490>>, <<-1, 1, 694627962>>>>,
          <<"H", <<1, 0, 0>>, <<-1, 2, 943585490>>, <<-1, 0, 658657661>>>>,
          <<"--">>,
          <<"0", "1">>,
          <<"He", <<1, 0, 0>>, <<1, 2, 943585490>>, <<1, 1, 625082778>>>>,
          <<"--">>,
          <<"Gh(H)", <<1, 0, 0>>, <<1, 0, 0>>, <<1, 0, 0>>>>,
          <<>>,
          <<"units", "angstrom">>,
          <<"no_reorient">>,
          <<"no_com">>,
          <<"symmetry", "c1">> >>] >>

\* GEOS_LIT_3 with the C2H3 fragment of 3-0.9 declared with charge 1.
GEOS_LIT_3_Cation ==
  << [key |-> "3-0.9", text |->
       << <<"1", "2">>,
          <<"H", <<1, 0, 905020870>>, <<1, 1, 257212446>>, <<-1, 1, 980000000>>>>,
          <<"H", <<1, 0, 905020870>>, <<-1, 1, 206707554>>, <<-1, 1, 980000000>>>>,
          <<"H", <<-1, 0, 942899130>>, <<-1, 1, 206707554>>, <<-1, 1, 980000000>>>>,
          <<"C", <<-1, 0, 18939130>>, <<1, 0, 692432446>>, <<-1, 1, 980000000>>>>,
          <<"C", <<-1, 0, 18939130>>, <<-1, 0, 641927554>>, <<-1, 1, 980000000>>>>,
          <<"--">>,
          <<"0", "1">>,
          <<"H", <<-1, 0, 939455652>>, <<1, 1, 252621093>>, <<1, 1, 980000000>>>>,
          <<"H", <<1, 0, 908464348>>, <<1, 1, 252621093>>, <<1, 1, 980000000>>>>,
          <<"H", <<1, 0, 908464348>>, <<-1, 1, 211298907>>, <<1, 1, 980000000>>>>,
          <<"H", <<-1, 0, 939455652>>, <<-1, 1, 211298907>>, <<1, 1, 980000000>>>>,
          <<"C", <<-1, 0, 15495652>>, <<1, 0, 687841093>>, <<1, 1, 980000000>>>>,
          <<"C", <<-1, 0, 15495652>>, <<-1, 0, 646518907>>, <<1, 1, 980000000>>>>,
          <<"--">>,
          <<"Gh(H)", <<1, 0, 0>>, <<1, 0, 0>>, <<1, 0, 0>>>>,
          <<>>,
          <<"units", "angstrom">>,
          <<"no_reorient">>,
          <<"no_com">>,
          <<"symmetry", "c1">> >>],
     [key |-> "3-1.0", text |->
       << <<"0", "2">>,
          <<"H", <<1, 0, 906742609>>, <<1, 1, 254916769>>, <<-1, 2, 200000000>>>>,
          <<"H", <<1, 0, 906742609>>, <<-1, 1, 209003231>>, <<-1, 2, 200000000>>>>,
          <<"H", <<-1, 0, 941177391>>, <<-1, 1, 209003231>>, <<-1, 2, 200000000>>>>,
          <<"C", <<-1, 0, 17217391>>, <<1, 0, 690136769>>, <<-1, 2, 200000000>>>>,
          <<"C", <<-1, 0, 17217391>>, <<-1, 0, 644223231>>, <<-1, 2, 200000000>>>>,
          <<"--">>,
          <<"0", "1">>,
          <<"H", <<-1, 0, 941177391>>, <<1, 1, 254916769>>, <<1, 2, 200000000>>>>,
          <<"H", <<1, 0, 906742609>>, <<1, 1, 254916769>>, <<1, 2, 200000000>>>>,
          <<"H", <<1, 0, 906742609>>, <<-1, 1, 209003231>>, <<1, 2, 200000000>>>>,
          <<"H", <<-1, 0, 941177391>>, <<-1, 1, 209003231>>, <<1, 2, 200000000>>>>,
          <<"C", <<-1, 0, 17217391>>, <<1, 0, 690136769>>, <<1, 2, 200000000>>>>,
          <<"C", <<-1, 0, 17217391>>, <<-1, 0, 644223231>>, <<1, 2, 200000000>>>>,
          <<"--">>,
          <<"Gh(H)", <<1, 0, 0>>, <<1, 0, 0>>, <<1, 0, 0>>>>,
          <<>>,
          <<"units", "angstrom">>,
          <<"no_reorient">>,
          <<"no_com">>,
          <<"symmetry", "c1">> >>],
     [key |-> "3-1.2", text |->
       << <<"0", "2">>,
          <<"H", <<1, 0, 910186087>>, <<1, 1, 250325416>>, <<-1, 2, 640000000>>>>,
          <<"H", <<1, 0, 910186087>>, <<-1, 1, 213594584>>, <<-1, 2, 640000000>>>>,
          <<"H", <<-1, 0, 937733913>>, <<-1, 1, 213594584>>, <<-1, 2, 640000000>>>>,
          <<"C", <<-1, 0, 13773913>>, <<1, 0, 685545416>>, <<-1, 2, 640000000>>>>,
          <<"C", <<-1, 0, 13773913>>, <<-1, 0, 648814584>>, <<-1, 2, 640000000>>>>,
          <<"--">>,
          <<"0", "1">>,
          <<"H", <<-1, 0, 944620869>>, <<1, 1, 259508123>>, <<1, 2, 640000000>>>>,
          <<"H", <<1, 0, 903299131>>, <<1, 1, 259508123>>, <<1, 2, 640000000>>>>,
          <<"H", <<1, 0, 903299131>>, <<-1, 1, 204411877>>, <<1, 2, 640000000>>>>,
          <<"H", <<-1, 0, 944620869>>, <<-1, 1, 204411877>>, <<1, 2, 640000000>>>>,
          <<"C", <<-1, 0, 20660869>>, <<1, 0, 694728123>>, <<1, 2, 640000000>>>>,
          <<"C", <<-1, 0, 20660869>>, <<-1, 0, 639631877>>, <<1, 2, 640000000>>>>,
          <<"--">>,
          <<"Gh(H)", <<1, 0, 0>>, <<1, 0, 0>>, <<1, 0, 0>>>>,
          <<>>,
          <<"units", "angstrom">>,
          <<"no_reorient">>,
          <<"no_com">>,
          <<"symmetry", "c1">> >>],
     [key |-> "3-1.5", text |->
       << <<"0", "2">>,
          <<"H", <<1, 0, 915351305>>, <<1, 1, 243438385>>, <<-1, 3, 300000000>>>>,
          <<"H", <<1, 0, 915351305>>, <<-1, 1, 220481615>>, <<-1, 3, 300000000>>>>,
          <<"H", <<-1, 0, 932568695>>, <<-1, 1, 220481615>>, <<-1, 3, 300000000>>>>,
          <<"C", <<-1, 0, 8608695>>, <<1, 0, 678658385>>, <<-1, 3, 300000000>>>>,
          <<"C", <<-1, 0, 8608695>>, <<-1, 0, 655701615>>, <<-1, 3, 300000000>>>>,
          <<"--">>,
          <<"0", "1">>,
          <<"H", <<-1, 0, 949786086>>, <<1, 1, 266395154>>, <<1, 3, 300000000>>>>,
          <<"H", <<1, 0, 898133914>>, <<1, 1, 266395154>>, <<1, 3, 300000000>>>>,
          <<"H", <<1, 0, 898133914>>, <<-1, 1, 197524846>>, <<1, 3, 300000000>>>>,
          <<"H", <<-1, 0, 949786086>>, <<-1, 1, 197524846>>, <<1, 3, 300000000>>>>,
          <<"C", <<-1, 0, 25826086>>, <<1, 0, 701615154>>, <<1, 3, 300000000>>>>,
          <<"C", <<-1, 0, 25826086>>, <<-1, 0, 632744846>>, <<1, 3, 300000000>>>>,
          <<"--">>,
          <<"Gh(H)", <<1, 0, 0>>, <<1, 0, 0>>, <<1, 0, 0>>>>,
          <<>>,
          <<"units", "angstrom">>,
          <<"no_reorient">>,
          <<"no_com">>,
          <<"symmetry", "c1">> >>],
     [key |-> "3-2.0", text |->
       << <<"0", "2">>,
          <<"H", <<1, 0, 923960000>>, <<1, 1, 231960000>>, <<-1, 4, 400000000>>>>,
          <<"H", <<1, 0, 923960000>>, <<-1, 1, 231960000>>, <<-1, 4, 400000000>>>>,
          <<"H", <<-1, 0, 923960000>>, <<-1, 1, 231960000>>, <<-1, 4, 400000000>>>>,
          <<"C", <<1, 0, 0>>, <<1, 0, 667180000>>, <<-1, 4, 400000000>>>>,
          <<"C", <<1, 0, 0>>, <<-1, 0, 667180000>>, <<-1, 4, 400000000>>>>,
          <<"--">>,
          <<"0", "1">>,
          <<"H", <<-1, 0, 958394782>>, <<1, 1, 277873539>>, <<1, 4, 400000000>>>>,
          <<"H", <<1, 0, 889525218>>, <<1, 1, 277873539>>, <<1, 4, 400000000>>>>,
          <<"H", <<1, 0, 889525218>>, <<-1, 1, 186046461>>, <<1, 4, 400000000>>>>,
          <<"H", <<-1, 0, 958394782>>, <<-1, 1, 186046461>>, <<1, 4, 400000000>>>>,
          <<"C", <<-1, 0, 34434782>>, <<1, 0, 713093539>>, <<1, 4, 400000000>>>>,
          <<"C", <<-1, 0, 34434782>>, <<-1, 0, 621266461>>, <<1, 4, 400000000>>>>,
          <<"--">>,
          <<"Gh(H)", <<1, 0, 0>>, <<1, 0, 0>>, <<1, 0, 0>>>>,
          <<>>,
          <<"units", "angstrom">>,
          <<"no_reorient">>,
          <<"no_com">>,
          <<"symmetry", "c1">> >>] >>

GEOS_LIT_3 ==
  << [key |-> "3-0.9", text |->
       << <<"0", "2">>,
          <<"H", <<1, 0, 905020870>>, <<1, 1, 257212446>>, <<-1, 1, 980000000>>>>,
          <<"H", <<1, 0, 905020870>>, <<-1, 1, 206707554>>, <<-1, 1, 980000000>>>>,
          <<"H", <<-1, 0, 942899130>>, <<-1, 1, 206707554>>, <<-1, 1, 980000000>>>>,
          <<"C", <<-1, 0, 18939130>>, <<1, 0, 692432446>>, <<-1, 1, 980000000>>>>,
          <<"C", <<-1, 0, 18939130>>, <<-1, 0, 641927554>>, <<-1, 1, 980000000>>>>,
          <<"--">>,
          <<"0", "1">>,
          <<"H", <<-1, 0, 939455652>>, <<1, 1, 252621093>>, <<1, 1, 980000000>>>>,
          <<"H", <<1, 0, 908464348>>, <<1, 1, 252621093>>, <<1, 1, 980000000>>>>,
          <<"H", <<1, 0, 908464348>>, <<-1, 1, 211298907>>, <<1, 1, 980000000>>>>,
          <<"H", <<-1, 0, 939455652>>, <<-1, 1, 211298907>>, <<1, 1, 980000000>>>>,
          <<"C", <<-1, 0, 15495652>>, <<1, 0, 687841093>>, <<1, 1, 980000000>>>>,
          <<"C", <<-1, 0, 15495652>>, <<-1, 0, 646518907>>, <<1, 1, 980000000>>>>,
          <<"--">>,
          <<"Gh(H)", <<1, 0, 0>>, <<1, 0, 0>>, <<1, 0, 0>>>>,
          <<>>,
          <<"units", "angstrom">>,
          <<"no_reorient">>,
          <<"no_com">>,
          <<"symmetry", "c1">> >>],
     [key |-> "3-1.0", text |->
       << <<"0", "2">>,
          <<"H", <<1, 0, 906742609>>, <<1, 1, 254916769>>, <<-1, 2, 200000000>>>>,
          <<"H", <<1, 0, 906742609>>, <<-1, 1, 209003231>>, <<-1, 2, 200000000>>>>,
          <<"H", <<-1, 0, 941177391>>, <<-1, 1, 209003231>>, <<-1, 2, 200000000>>>>,
          <<"C", <<-1, 0, 17217391>>, <<1, 0, 690136769>>, <<-1, 2, 200000000>>>>,
          <<"C", <<-1, 0, 17217391>>, <<-1, 0, 644223231>>, <<-1, 2, 200000000>>>>,
          <<"--">>,
          <<"0", "1">>,
          <<"H", <<-1, 0, 941177391>>, <<1, 1, 254916769>>, <<1, 2, 200000000>>>>,
          <<"H", <<1, 0, 906742609>>, <<1, 1, 254916769>>, <<1, 2, 200000000>>>>,
          <<"H", <<1, 0, 906742609>>, <<-1, 1, 209003231>>, <<1, 2, 200000000>>>>,
          <<"H", <<-1, 0, 941177391>>, <<-1, 1, 209003231>>, <<1, 2, 200000000>>>>,
          <<"C", <<-1, 0, 17217391>>, <<1, 0, 690136769>>, <<1, 2, 200000000>>>>,
          <<"C", <<-1, 0, 17217391>>, <<-1, 0, 644223231>>, <<1, 2, 200000000>>>>,
          <<"--">>,
          <<"Gh(H)", <<1, 0, 0>>, <<1, 0, 0>>, <<1, 0, 0>>>>,
          <<>>,
          <<"units", "angstrom">>,
          <<"no_reorient">>,
          <<"no_com">>,
          <<"symmetry", "c1">> >>],
     [key |-> "3-1.2", text |->
       << <<"0", "2">>,
          <<"H", <<1, 0, 910186087>>, <<1, 1, 250325416>>, <<-1, 2, 640000000>>>>,
          <<"H", <<1, 0, 910186087>>, <<-1, 1, 213594584>>, <<-1, 2, 640000000>>>>,
          <<"H", <<-1, 0, 937733913>>, <<-1, 1, 213594584>>, <<-1, 2, 640000000>>>>,
          <<"C", <<-1, 0, 13773913>>, <<1, 0, 685545416>>, <<-1, 2, 640000000>>>>,
          <<"C", <<-1, 0, 13773913>>, <<-1, 0, 648814584>>, <<-1, 2, 640000000>>>>,
          <<"--">>,
          <<"0", "1">>,
          <<"H", <<-1, 0, 944620869>>, <<1, 1, 259508123>>, <<1, 2, 640000000>>>>,
          <<"H", <<1, 0, 903299131>>, <<1, 1, 259508123>>, <<1, 2, 640000000>>>>,
          <<"H", <<1, 0, 903299131>>, <<-1, 1, 204411877>>, <<1, 2, 640000000>>>>,
          <<"H", <<-1, 0, 944620869>>, <<-1, 1, 204411877>>, <<1, 2, 640000000>>>>,
          <<"C", <<-1, 0, 20660869>>, <<1, 0, 694728123>>, <<1, 2, 640000000>>>>,
          <<"C", <<-1, 0, 20660869>>, <<-1, 0, 639631877>>, <<1, 2, 640000000>>>>,
          <<"--">>,
          <<"Gh(H)", <<1, 0, 0>>, <<1, 0, 0>>, <<1, 0, 0>>>>,
          <<>>,
          <<"units", "angstrom">>,
          <<"no_reorient">>,
          <<"no_com">>,
          <<"symmetry", "c1">> >>],
     [key |-> "3-1.5", text |->
       << <<"0", "2">>,
          <<"H", <<1, 0, 915351305>>, <<1, 1, 243438385>>, <<-1, 3, 300000000>>>>,
          <<"H", <<1, 0, 915351305>>, <<-1, 1, 220481615>>, <<-1, 3, 300000000>>>>,
          <<"H", <<-1, 0, 932568695>>, <<-1, 1, 220481615>>, <<-1, 3, 300000000>>>>,
          <<"C", <<-1, 0, 8608695>>, <<1, 0, 678658385>>, <<-1, 3, 300000000>>>>,
          <<"C", <<-1, 0, 8608695>>, <<-1, 0, 655701615>>, <<-1, 3, 300000000>>>>,
          <<"--">>,
          <<"0", "1">>,
          <<"H", <<-1, 0, 949786086>>, <<1, 1, 266395154>>, <<1, 3, 300000000>>>>,
          <<"H", <<1, 0, 898133914>>, <<1, 1, 266395154>>, <<1, 3, 300000000>>>>,
          <<"H", <<1, 0, 898133914>>, <<-1, 1, 197524846>>, <<1, 3, 300000000>>>>,
          <<"H", <<-1, 0, 949786086>>, <<-1, 1, 197524846>>, <<1, 3, 300000000>>>>,
          <<"C", <<-1, 0, 25826086>>, <<1, 0, 701615154>>, <<1, 3, 300000000>>>>,
          <<"C", <<-1, 0, 25826086>>, <<-1, 0, 632744846>>, <<1, 3, 300000000>>>>,
          <<"--">>,
          <<"Gh(H)", <<1, 0, 0>>, <<1, 0, 0>>, <<1, 0, 0>>>>,
          <<>>,
          <<"units", "angstrom">>,
          <<"no_reorient">>,
          <<"no_com">>,
          <<"symmetry", "c1">> >>],
     [key |-> "3-2.0", text |->
       << <<"0", "2">>,
          <<"H", <<1, 0, 923960000>>, <<1, 1, 231960000>>, <<-1, 4, 400000000>>>>,
          <<"H", <<1, 0, 923960000>>, <<-1, 1, 231960000>>, <<-1, 4, 400000000>>>>,
          <<"H", <<-1, 0, 923960000>>, <<-1, 1, 231960000>>, <<-1, 4, 400000000>>>>,
          <<"C", <<1, 0, 0>>, <<1, 0, 667180000>>, <<-1, 4, 400000000>>>>,
          <<"C", <<1, 0, 0>>, <<-1, 0, 667180000>>, <<-1, 4, 400000000>>>>,
          <<"--">>,
          <<"0", "1">>,
          <<"H", <<-1, 0, 958394782>>, <<1, 1, 277873539>>, <<1, 4, 400000000>>>>,
          <<"H", <<1, 0, 889525218>>, <<1, 1, 277873539>>, <<1, 4, 400000000>>>>,
          <<"H", <<1, 0, 889525218>>, <<-1, 1, 186046461>>, <<1, 4, 400000000>>>>,
          <<"H", <<-1, 0, 958394782>>, <<-1, 1, 186046461>>, <<1, 4, 400000000>>>>,
          <<"C", <<-1, 0, 34434782>>, <<1, 0, 713093539>>, <<1, 4, 400000000>>>>,
          <<"C", <<-1, 0, 34434782>>, <<-1, 0, 621266461>>, <<1, 4, 400000000>>>>,
          <<"--">>,
          <<"Gh(H)", <<1, 0, 0>>, <<1, 0, 0>>, <<1, 0, 0>>>>,
          <<>>,
          <<"units", "angstrom">>,
          <<"no_reorient">>,
          <<"no_com">>,
          <<"symmetry", "c1">> >>] >>

GEOS_LIT_4 ==
  << [key |-> "4-0.9", text |->
       << <<"0", "3">>,
          <<"O", <<-1, 0, 330467500>>, <<1, 0, 0>>, <<-1, 1, 475595000>>>>,
          <<"O", <<1, 0, 871232500>>, <<1, 0, 0>>, <<-1, 1, 475595000>>>>,
          <<"--">>,
          <<"0", "1">>,
          <<"H", <<-1, 0, 270382500>>, <<-1, 0, 371400000>>, <<1, 1, 475595000>>>>,
          <<"H", <<-1, 0, 270382500>>, <<1, 0, 371400000>>, <<1, 1, 475595000>>>>,
          <<"--">>,
          <<"Gh(H)", <<1, 0, 0>>, <<1, 0, 0>>, <<1, 0, 0>>>>,
          <<>>,
          <<"units", "angstrom">>,
          <<"no_reorient">>,
          <<"no_com">>,
          <<"symmetry", "c1">> >>],
     [key |-> "4-1.0", text |->
       << <<"0", "3">>,
          <<"O", <<-1, 0, 300425000>>, <<1, 0, 0>>, <<-1, 1, 639550000>>>>,
          <<"O", <<1, 0, 901275000>>, <<1, 0, 0>>, <<-1, 1, 639550000>>>>,
          <<"--">>,
          <<"0", "1">>,
          <<"H", <<-1, 0, 300425000>>, <<-1, 0, 371400000>>, <<1, 1, 639550000>>>>,
          <<"H", <<-1, 0, 300425000>>, <<1, 0, 371400000>>, <<1, 1, 639550000>>>>,
          <<"--">>,
          <<"Gh(H)", <<1, 0, 0>>, <<1, 0, 0>>, <<1, 0, 0>>>>,
          <<>>,
          <<"units", "angstrom">>,
          <<"no_reorient">>,
          <<"no_com">>,
          <<"symmetry", "c1">> >>],
     [key |-> "4-1.2", text |->
       << <<"0", "3">>,
          <<"O", <<-1, 0, 240340000>>, <<1, 0, 0>>, <<-1, 1, 967460000>>>>,
          <<"O", <<1, 0, 961360000>>, <<1, 0, 0>>, <<-1, 1, 967460000>>>>,
          <<"--">>,
          <<"0", "1">>,
          <<"H", <<-1, 0, 360510000>>, <<-1, 0, 371400000>>, <<1, 1, 967460000>>>>,
          <<"H", <<-1, 0, 360510000>>, <<1, 0, 371400000>>, <<1, 1, 967460000>>>>,
          <<"--">>,
          <<"Gh(H)", <<1, 0, 0>>, <<1, 0, 0>>, <<1, 0, 0>>>>,
          <<>>,
          <<"units", "angstrom">>,
          <<"no_reorient">>,
          <<"no_com">>,
          <<"symmetry", "c1">> >>],
     [key |-> "4-1.5", text |->
       << <<"0", "3">>,
          <<"O", <<-1, 0, 150212500>>, <<1, 0, 0>>, <<-1, 2, 459325000>>>>,
          <<"O", <<1, 1, 51487500>>, <<1, 0, 0>>, <<-1, 2, 459325000>>>>,
          <<"--">>,
          <<"0", "1">>,
          <<"H", <<-1, 0, 450637500>>, <<-1, 0, 371400000>>, <<1, 2, 459325000>>>>,
          <<"H", <<-1, 0, 450637500>>, <<1, 0, 371400000>>, <<1, 2, 459325000>>>>,
          <<"--">>,
          <<"Gh(H)", <<1, 0, 0>>, <<1, 0, 0>>, <<1, 0, 0>>>>,
          <<>>,
          <<"units", "angstrom">>,
          <<"no_reorient">>,
          <<"no_com">>,
          <<"symmetry", "c1">> >>],
     [key |-> "4-2.0", text |->
       << <<"0", "3">>,
          <<"O", <<1, 0, 0>>, <<1, 0, 0>>, <<-1, 3, 279100000>>>>,
          <<"O", <<1, 1, 201700000>>, <<1, 0, 0>>, <<-1, 3, 279100000>>>>,
          <<"--">>,
          <<"0", "1">>,
          <<"H", <<-1, 0, 600850000>>, <<-1, 0, 371400000>>, <<1, 3, 279100000>>>>,
          <<"H", <<-1, 0, 600850000>>, <<1, 0, 371400000>>, <<1, 3, 279100000>>>>,
          <<"--">>,
          <<"Gh(H)", <<1, 0, 0>>, <<1, 0, 0>>, <<1, 0, 0>>>>,
          <<>>,
          <<"units", "angstrom">>,
          <<"no_reorient">>,
          <<"no_com">>,
          <<"symmetry", "c1">> >>] >>

GEOS_LIT_5 ==
  << [key |-> "5-0.9", text |->
       << <<"0", "3">>,
          <<"N", <<-1, 0, 56490403>>, <<1, 0, 0>>, <<1, 1, 724989690>>>>,
          <<"H", <<1, 0, 854426530>>, <<1, 0, 0>>, <<1, 1, 228991525>>>>,
          <<"--">>,
          <<"0", "1">>,
          <<"Ar", <<-1, 0, 4659888>>, <<1, 0, 0>>, <<-1, 1, 691693095>>>>,
          <<"--">>,
          <<"Gh(H)", <<1, 0, 0>>, <<1, 0, 0>>, <<1, 0, 0>>>>,
          <<>>,
          <<"units", "angstrom">>,
          <<"no_reorient">>,
          <<"no_com">>,
          <<"symmetry", "c1">> >>],
     [key |-> "5-1.0", text |->
       << <<"0", "3">>,
          <<"N", <<-1, 0, 55972638>>, <<1, 0, 0>>, <<1, 1, 912955590>>>>,
          <<"H", <<1, 0, 854944296>>, <<1, 0, 0>>, <<1, 1, 416957424>>>>,
          <<"--">>,
          <<"0", "1">>,
          <<"Ar", <<-1, 0, 5177654>>, <<1, 0, 0>>, <<-1, 1, 879658994>>>>,
          <<"--">>,
          <<"Gh(H)", <<1, 0, 0>>, <<1, 0, 0>>, <<1, 0, 0>>>>,
          <<>>,
          <<"units", "angstrom">>,
          <<"no_reorient">>,
          <<"no_com">>,
          <<"symmetry", "c1">> >>],
     [key |-> "5-1.2", text |->
       << <<"0", "3">>,
          <<"N", <<-1, 0, 54937107>>, <<1, 0, 0>>, <<1, 2, 288887388>>>>,
          <<"H", <<1, 0, 855979826>>, <<1, 0, 0>>, <<1, 1, 792889223>>>>,
          <<"--">>,
          <<"0", "1">>,
          <<"Ar", <<-1, 0, 6213184>>, <<1, 0, 0>>, <<-1, 2, 255590793>>>>,
          <<"--">>,
          <<"Gh(H)", <<1, 0, 0>>, <<1, 0, 0>>, <<1, 0, 0>>>>,
          <<>>,
          <<"units", "angstrom">>,
          <<"no_reorient">>,
          <<"no_com">>,
          <<"symmetry", "c1">> >>],
     [key |-> "5-1.5", text |->
       << <<"0", "3">>,
          <<"N", <<-1, 0, 53383811>>, <<1, 0, 0>>, <<1, 2, 852785087>>>>,
          <<"H", <<1, 0, 857533122>>, <<1, 0, 0>>, <<1, 2, 356786921>>>>,
          <<"--">>,
          <<"0", "1">>,
          <<"Ar", <<-1, 0, 7766480>>, <<1, 0, 0>>, <<-1, 2, 819488491>>>>,
          <<"--">>,
          <<"Gh(H)", <<1, 0, 0>>, <<1, 0, 0>>, <<1, 0, 0>>>>,
          <<>>,
          <<"units", "angstrom">>,
          <<"no_reorient">>,
          <<"no_com">>,
          <<"symmetry", "c1">> >>],
     [key |-> "5-2.0", text |->
       << <<"0", "3">>,
          <<"N", <<-1, 0, 50794984>>, <<1, 0, 0>>, <<1, 3, 792614584>>>>,
          <<"H", <<1, 0, 860121949>>, <<1, 0, 0>>, <<1, 3, 296616418>>>>,
          <<"--">>,
          <<"0", "1">>,
          <<"Ar", <<-1, 0, 10355307>>, <<1, 0, 0>>, <<-1, 3, 759317989>>>>,
          <<"--">>,
          <<"Gh(H)", <<1, 0, 0>>, <<1, 0, 0>>, <<1, 0, 0>>>>,
          <<>>,
          <<"units", "angstrom">>,
          <<"no_reorient">>,
          <<"no_com">>,
          <<"symmetry", "c1">> >>] >>

GEOS_LIT_6 ==
  << [key |-> "6-0.9", text |->
       << <<"0", "2">>,
          <<"C", <<-1, 0, 427112733>>, <<1, 0, 0>>, <<1, 2, 134178904>>>>,
          <<"N", <<1, 0, 427713476>>, <<1, 0, 0>>, <<1, 1, 339428634>>>>,
          <<"--">>,
          <<"0", "1">>,
          <<"Ar", <<-1, 0, 33090602>>, <<1, 0, 0>>, <<-1, 1, 706317987>>>>,
          <<"--">>,
          <<"Gh(H)", <<1, 0, 0>>, <<1, 0, 0>>, <<1, 0, 0>>>>,
          <<>>,
          <<"units", "angstrom">>,
          <<"no_reorient">>,
          <<"no_com">>,
          <<"symmetry", "c1">> >>],
     [key |-> "6-1.0", text |->
       << <<"0", "2">>,
          <<"C", <<-1, 0, 423436000>>, <<1, 0, 0>>, <<1, 2, 323769791>>>>,
          <<"N", <<1, 0, 431390210>>, <<1, 0, 0>>, <<1, 1, 529019521>>>>,
          <<"--">>,
          <<"0", "1">>,
          <<"Ar", <<-1, 0, 36767336>>, <<1, 0, 0>>, <<-1, 1, 895908875>>>>,
          <<"--">>,
          <<"Gh(H)", <<1, 0, 0>>, <<1, 0, 0>>, <<1, 0, 0>>>>,
          <<>>,
          <<"units", "angstrom">>,
          <<"no_reorient">>,
          <<"no_com">>,
          <<"symmetry", "c1">> >>],
     [key |-> "6-1.2", text |->
       << <<"0", "2">>,
          <<"C", <<-1, 0, 416082533>>, <<1, 0, 0>>, <<1, 2, 702951566>>>>,
          <<"N", <<1, 0, 438743677>>, <<1, 0, 0>>, <<1, 1, 908201296>>>>,
          <<"--">>,
          <<"0", "1">>,
          <<"Ar", <<-1, 0, 44120803>>, <<1, 0, 0>>, <<-1, 2, 275090650>>>>,
          <<"--">>,
          <<"Gh(H)", <<1, 0, 0>>, <<1, 0, 0>>, <<1, 0, 0>>>>,
          <<>>,
          <<"units", "angstrom">>,
          <<"no_reorient">>,
          <<"no_com">>,
          <<"symmetry", "c1">> >>],
     [key |-> "6-1.5", text |->
       << <<"0", "2">>,
          <<"C", <<-1, 0, 405052332>>, <<1, 0, 0>>, <<1, 3, 271724229>>>>,
          <<"N", <<1, 0, 449773878>>, <<1, 0, 0>>, <<1, 2, 476973959>>>>,
          <<"--">>,
          <<"0", "1">>,
          <<"Ar", <<-1, 0, 55151004>>, <<1, 0, 0>>, <<-1, 2, 843863312>>>>,
          <<"--">>,
          <<"Gh(H)", <<1, 0, 0>>, <<1, 0, 0>>, <<1, 0, 0>>>>,
          <<>>,
          <<"units", "angstrom">>,
          <<"no_reorient">>,
          <<"no_com">>,
          <<"symmetry", "c1">> >>],
     [key |-> "6-2.0", text |->
       << <<"0", "2">>,
          <<"C", <<-1, 0, 386668664>>, <<1, 0, 0>>, <<1, 4, 219678666>>>>,
          <<"N", <<1, 0, 468157545>>, <<1, 0, 0>>, <<1, 3, 424928396>>>>,
          <<"--">>,
          <<"0", "1">>,
          <<"Ar", <<-1, 0, 73534672>>, <<1, 0, 0>>, <<-1, 3, 791817750>>>>,
          <<"--">>,
          <<"Gh(H)", <<1, 0, 0>>, <<1, 0, 0>>, <<1, 0, 0>>>>,
          <<>>,
          <<"units", "angstrom">>,
          <<"no_reorient">>,
          <<"no_com">>,
          <<"symmetry", "c1">> >>] >>

GEOS_LIT_7 ==
  << [key |-> "7-0.9", text |->
       << <<"0", "3">>,
          <<"O", <<-1, 0, 600850000>>, <<1, 0, 0>>, <<-1, 1, 548000000>>>>,
          <<"O", <<1, 0, 600850000>>, <<1, 0, 0>>, <<-1, 1, 548000000>>>>,
          <<"--">>,
          <<"0", "1">>,
          <<"N", <<1, 0, 0>>, <<-1, 0, 548400000>>, <<1, 1, 548000000>>>>,
          <<"N", <<1, 0, 0>>, <<1, 0, 548400000>>, <<1, 1, 548000000>>>>,
          <<"--">>,
          <<"Gh(H)", <<1, 0, 0>>, <<1, 0, 0>>, <<1, 0, 0>>>>,
          <<>>,
          <<"units", "angstrom">>,
          <<"no_reorient">>,
          <<"no_com">>,
          <<"symmetry", "c1">> >>],
     [key |-> "7-1.0", text |->
       << <<"0", "3">>,
          <<"O", <<-1, 0, 600850000>>, <<1, 0, 0>>, <<-1, 1, 720000000>>>>,
          <<"O", <<1, 0, 600850000>>, <<1, 0, 0>>, <<-1, 1, 720000000>>>>,
          <<"--">>,
          <<"0", "1">>,
          <<"N", <<1, 0, 0>>, <<-1, 0, 548400000>>, <<1, 1, 720000000>>>>,
          <<"N", <<1, 0, 0>>, <<1, 0, 548400000>>, <<1, 1, 720000000>>>>,
          <<"--">>,
          <<"Gh(H)", <<1, 0, 0>>, <<1, 0, 0>>, <<1, 0, 0>>>>,
          <<>>,
          <<"units", "angstrom">>,
          <<"no_reorient">>,
          <<"no_com">>,
          <<"symmetry", "c1">> >>],
     [key |-> "7-1.2", text |->
       << <<"0", "3">>,
          <<"O", <<-1, 0, 600850000>>, <<1, 0, 0>>, <<-1, 2, 64000000>>>>,
          <<"O", <<1, 0, 600850000>>, <<1, 0, 0>>, <<-1, 2, 64000000>>>>,
          <<"--">>,
          <<"0", "1">>,
          <<"N", <<1, 0, 0>>, <<-1, 0, 548400000>>, <<1, 2, 64000000>>>>,
          <<"N", <<1, 0, 0>>, <<1, 0, 548400000>>, <<1, 2, 64000000>>>>,
          <<"--">>,
          <<"Gh(H)", <<1, 0, 0>>, <<1, 0, 0>>, <<1, 0, 0>>>>,
          <<>>,
          <<"units", "angstrom">>,
          <<"no_reorient">>,
          <<"no_com">>,
          <<"symmetry", "c1">> >>],
     [key |-> "7-1.5", text |->
       << <<"0", "3">>,
          <<"O", <<-1, 0, 600850000>>, <<1, 0, 0>>, <<-1, 2, 580000000>>>>,
          <<"O", <<1, 0, 600850000>>, <<1, 0, 0>>, <<-1, 2, 580000000>>>>,
          <<"--">>,
          <<"0", "1">>,
          <<"N", <<1, 0, 0>>, <<-1, 0, 548400000>>, <<1, 2, 580000000>>>>,
          <<"N", <<1, 0, 0>>, <<1, 0, 548400000>>, <<1, 2, 580000000>>>>,
          <<"--">>,
          <<"Gh(H)", <<1, 0, 0>>, <<1, 0, 0>>, <<1, 0, 0>>>>,
          <<>>,
          <<"units", "angstrom">>,
          <<"no_reorient">>,
          <<"no_com">>,
          <<"symmetry", "c1">> >>],
     [key |-> "7-2.0", text |->
       << <<"0", "3">>,
          <<"O", <<-1, 0, 600850000>>, <<1, 0, 0>>, <<-1, 3, 440000000>>>>,
          <<"O", <<1, 0, 600850000>>, <<1, 0, 0>>, <<-1, 3, 440000000>>>>,
          <<"--">>,
          <<"0", "1">>,
          <<"N", <<1, 0, 0>>, <<-1, 0, 548400000>>, <<1, 3, 440000000>>>>,
          <<"N", <<1, 0, 0>>, <<1, 0, 548400000>>, <<1, 3, 440000000>>>>,
          <<"--">>,
          <<"Gh(H)", <<1, 0, 0>>, <<1, 0, 0>>, <<1, 0, 0>>>>,
          <<>>,
          <<"units", "angstrom">>,
          <<"no_reorient">>,
          <<"no_com">>,
          <<"symmetry", "c1">> >>] >>

GEOS_LIT_8 ==
  << [key |-> "8-0.9", text |->
       << <<"0", "1">>,
          <<"O", <<-1, 1, 602354754>>, <<-1, 0, 131587291>>, <<1, 0, 0>>>>,
          <<"H", <<-1, 0, 911985371>>, <<1, 0, 483604683>>, <<1, 0, 0>>>>,
          <<"H", <<-1, 0, 875976531>>, <<-1, 0, 823928533>>, <<1, 0, 0>>>>,
          <<"--">>,
          <<"0", "3">>,
          <<"O", <<1, 1, 447979736>>, <<1, 0, 699599572>>, <<1, 0, 0>>>>,
          <<"O", <<1, 1, 598198061>>, <<-1, 0, 427792115>>, <<1, 0, 0>>>>,
          <<"--">>,
          <<"Gh(H)", <<1, 0, 0>>, <<1, 0, 0>>, <<1, 0, 0>>>>,
          <<>>,
          <<"units", "angstrom">>,
          <<"no_reorient">>,
          <<"no_com">>,
          <<"symmetry", "c1">> >>],
     [key |-> "8-1.0", text |->
       << <<"0", "1">>,
          <<"O", <<-1, 1, 771586854>>, <<-1, 0, 146687705>>, <<1, 0, 0>>>>,
          <<"H", <<-1, 1, 81217471>>, <<1, 0, 468504269>>, <<1, 0, 0>>>>,
          <<"H", <<-1, 1, 45208631>>, <<-1, 0, 839028947>>, <<1, 0, 0>>>>,
          <<"--">>,
          <<"0", "3">>,
          <<"O", <<1, 1, 617211836>>, <<1, 0, 714699987>>, <<1, 0, 0>>>>,
          <<"O", <<1, 1, 767430161>>, <<-1, 0, 412691700>>, <<1, 0, 0>>>>,
          <<"--">>,
          <<"Gh(H)", <<1, 0, 0>>, <<1, 0, 0>>, <<1, 0, 0>>>>,
          <<>>,
          <<"units", "angstrom">>,
          <<"no_reorient">>,
          <<"no_com">>,
          <<"symmetry", "c1">> >>],
     [key |-> "8-1.2", text |->
       << <<"0", "1">>,
          <<"O", <<-1, 2, 110051054>>, <<-1, 0, 176888534>>, <<1, 0, 0>>>>,
          <<"H", <<-1, 1, 419681671>>, <<1, 0, 438303440>>, <<1, 0, 0>>>>,
          <<"H", <<-1, 1, 383672831>>, <<-1, 0, 869229776>>, <<1, 0, 0>>>>,
          <<"--">>,
          <<"0", "3">>,
          <<"O", <<1, 1, 955676036>>, <<1, 0, 744900815>>, <<1, 0, 0>>>>,
          <<"O", <<1, 2, 105894361>>, <<-1, 0, 382490872>>, <<1, 0, 0>>>>,
          <<"--">>,
          <<"Gh(H)", <<1, 0, 0>>, <<1, 0, 0>>, <<1, 0, 0>>>>,
          <<>>,
          <<"units", "angstrom">>,
          <<"no_reorient">>,
          <<"no_com">>,
          <<"symmetry", "c1">> >>],
     [key |-> "8-1.5", text |->
       << <<"0", "1">>,
          <<"O", <<-1, 2, 617747353>>, <<-1, 0, 222189777>>, <<1, 0, 0>>>>,
          <<"H", <<-1, 1, 927377970>>, <<1, 0, 393002197>>, <<1, 0, 0>>>>,
          <<"H", <<-1, 1, 891369130>>, <<-1, 0, 914531019>>, <<1, 0, 0>>>>,
          <<"--">>,
          <<"0", "3">>,
          <<"O", <<1, 2, 463372335>>, <<1, 0, 790202058>>, <<1, 0, 0>>>>,
          <<"O", <<1, 2, 613590660>>, <<-1, 0, 337189629>>, <<1, 0, 0>>>>,
          <<"--">>,
          <<"Gh(H)", <<1, 0, 0>>, <<1, 0, 0>>, <<1, 0, 0>>>>,
          <<>>,
          <<"units", "angstrom">>,
          <<"no_reorient">>,
          <<"no_com">>,
          <<"symmetry", "c1">> >>],
     [key |-> "8-2.0", text |->
       << <<"0", "1">>,
          <<"O", <<-1, 3, 463907853>>, <<-1, 0, 297691848>>, <<1, 0, 0>>>>,
          <<"H", <<-1, 2, 773538470>>, <<1, 0, 317500126>>, <<1, 0, 0>>>>,
          <<"H", <<-1, 2, 737529630>>, <<-1, 0, 990033090>>, <<1, 0, 0>>>>,
          <<"--">>,
          <<"0", "3">>,
          <<"O", <<1, 3, 309532834>>, <<1, 0, 865704130>>, <<1, 0, 0>>>>,
          <<"O", <<1, 3, 459751159>>, <<-1, 0, 261687557>>, <<1, 0, 0>>>>,
          <<"--">>,
          <<"Gh(H)", <<1, 0, 0>>, <<1, 0, 0>>, <<1, 0, 0>>>>,
          <<>>,
          <<"units", "angstrom">>,
          <<"no_reorient">>,
          <<"no_com">>,
          <<"symmetry", "c1">> >>] >>

\* GEOS_LIT_9 with monomer B of 9-1.0 declared a singlet.
GEOS_LIT_9_Singlet ==
  << [key |-> "9-0.9", text |->
       << <<"0", "3">>,
          <<"O", <<1, 0, 601000000>>, <<-1, 1, 485000000>>, <<1, 0, 0>>>>,
          <<"O", <<-1, 0, 601000000>>, <<-1, 1, 485000000>>, <<1, 0, 0>>>>,
          <<"--">>,
          <<"0", "3">>,
          <<"O", <<1, 0, 0>>, <<1, 1, 485000000>>, <<1, 0, 601000000>>>>,
          <<"O", <<1, 0, 0>>, <<1, 1, 485000000>>, <<-1, 0, 601000000>>>>,
          <<"--">>,
          <<"Gh(H)", <<1, 0, 0>>, <<1, 0, 0>>, <<1, 0, 0>>>>,
          <<>>,
          <<"units", "angstrom">>,
          <<"no_reorient">>,
          <<"no_com">>,
          <<"symmetry", "c1">> >>],
     [key |-> "9-1.0", text |->
       << <<"0", "3">>,
          <<"O", <<1, 0, 601000000>>, <<-1, 1, 650000000>>, <<1, 0, 0>>>>,
          <<"O", <<-1, 0, 601000000>>, <<-1, 1, 650000000>>, <<1, 0, 0>>>>,
          <<"--">>,
          <<"0", "1">>,
          <<"O", <<1, 0, 0>>, <<1, 1, 650000000>>, <<1, 0, 601000000>>>>,
          <<"O", <<1, 0, 0>>, <<1, 1, 650000000>>, <<-1, 0, 601000000>>>>,
          <<"--">>,
          <<"Gh(H)", <<1, 0, 0>>, <<1, 0, 0>>, <<1, 0, 0>>>>,
          <<>>,
          <<"units", "angstrom">>,
          <<"no_reorient">>,
          <<"no_com">>,
          <<"symmetry", "c1">> >>],
     [key |-> "9-1.2", text |->
       << <<"0", "3">>,
          <<"O", <<1, 0, 601000000>>, <<-1, 1, 980000000>>, <<1, 0, 0>>>>,
          <<"O", <<-1, 0, 601000000>>, <<-1, 1, 980000000>>, <<1, 0, 0>>>>,
          <<"--">>,
          <<"0", "3">>,
          <<"O", <<1, 0, 0>>, <<1, 1, 980000000>>, <<1, 0, 601000000>>>>,
          <<"O", <<1, 0, 0>>, <<1, 1, 980000000>>, <<-1, 0, 601000000>>>>,
          <<"--">>,
          <<"Gh(H)", <<1, 0, 0>>, <<1, 0, 0>>, <<1, 0, 0>>>>,
          <<>>,
          <<"units", "angstrom">>,
          <<"no_reorient">>,
          <<"no_com">>,
          <<"symmetry", "c1">> >>],
     [key |-> "9-1.5", text |->
       << <<"0", "3">>,
          <<"O", <<1, 0, 601000000>>, <<-1, 2, 475000000>>, <<1, 0, 0>>>>,
          <<"O", <<-1, 0, 601000000>>, <<-1, 2, 475000000>>, <<1, 0, 0>>>>,
          <<"--">>,
          <<"0", "3">>,
          <<"O", <<1, 0, 0>>, <<1, 2, 475000000>>, <<1, 0, 601000000>>>>,
          <<"O", <<1, 0, 0>>, <<1, 2, 475000000>>, <<-1, 0, 601000000>>>>,
          <<"--">>,
          <<"Gh(H)", <<1, 0, 0>>, <<1, 0, 0>>, <<1, 0, 0>>>>,
          <<>>,
          <<"units", "angstrom">>,
          <<"no_reorient">>,
          <<"no_com">>,
          <<"symmetry", "c1">> >>],
     [key |-> "9-2.0", text |->
       << <<"0", "3">>,
          <<"O", <<1, 0, 601000000>>, <<-1, 3, 300000000>>, <<1, 0, 0>>>>,
          <<"O", <<-1, 0, 601000000>>, <<-1, 3, 300000000>>, <<1, 0, 0>>>>,
          <<"--">>,
          <<"0", "3">>,
          <<"O", <<1, 0, 0>>, <<1, 3, 300000000>>, <<1, 0, 601000000>>>>,
          <<"O", <<1, 0, 0>>, <<1, 3, 300000000>>, <<-1, 0, 601000000>>>>,
          <<"--">>,
          <<"Gh(H)", <<1, 0, 0>>, <<1, 0, 0>>, <<1, 0, 0>>>>,
          <<>>,
          <<"units", "angstrom">>,
          <<"no_reorient">>,
          <<"no_com">>,
          <<"symmetry", "c1">> >>] >>

GEOS_LIT_9 ==
  << [key |-> "9-0.9", text |->
       << <<"0", "3">>,
          <<"O", <<1, 0, 601000000>>, <<-1, 1, 485000000>>, <<1, 0, 0>>>>,
          <<"O", <<-1, 0, 601000000>>, <<-1, 1, 485000000>>, <<1, 0, 0>>>>,
          <<"--">>,
          <<"0", "3">>,
          <<"O", <<1, 0, 0>>, <<1, 1, 485000000>>, <<1, 0, 601000000>>>>,
          <<"O", <<1, 0, 0>>, <<1, 1, 485000000>>, <<-1, 0, 601000000>>>>,
          <<"--">>,
          <<"Gh(H)", <<1, 0, 0>>, <<1, 0, 0>>, <<1, 0, 0>>>>,
          <<>>,
          <<"units", "angstrom">>,
          <<"no_reorient">>,
          <<"no_com">>,
          <<"symmetry", "c1">> >>],
     [key |-> "9-1.0", text |->
       << <<"0", "3">>,
          <<"O", <<1, 0, 601000000>>, <<-1, 1, 650000000>>, <<1, 0, 0>>>>,
          <<"O", <<-1, 0, 601000000>>, <<-1, 1, 650000000>>, <<1, 0, 0>>>>,
          <<"--">>,
          <<"0", "3">>,
          <<"O", <<1, 0, 0>>, <<1, 1, 650000000>>, <<1, 0, 601000000>>>>,
          <<"O", <<1, 0, 0>>, <<1, 1, 650000000>>, <<-1, 0, 601000000>>>>,
          <<"--">>,
          <<"Gh(H)", <<1, 0, 0>>, <<1, 0, 0>>, <<1, 0, 0>>>>,
          <<>>,
          <<"units", "angstrom">>,
          <<"no_reorient">>,
          <<"no_com">>,
          <<"symmetry", "c1">> >>],
     [key |-> "9-1.2", text |->
       << <<"0", "3">>,
          <<"O", <<1, 0, 601000000>>, <<-1, 1, 980000000>>, <<1, 0, 0>>>>,
          <<"O", <<-1, 0, 601000000>>, <<-1, 1, 980000000>>, <<1, 0, 0>>>>,
          <<"--">>,
          <<"0", "3">>,
          <<"O", <<1, 0, 0>>, <<1, 1, 980000000>>, <<1, 0, 601000000>>>>,
          <<"O", <<1, 0, 0>>, <<1, 1, 980000000>>, <<-1, 0, 601000000>>>>,
          <<"--">>,
          <<"Gh(H)", <<1, 0, 0>>, <<1, 0, 0>>, <<1, 0, 0>>>>,
          <<>>,
          <<"units", "angstrom">>,
          <<"no_reorient">>,
          <<"no_com">>,
          <<"symmetry", "c1">> >>],
     [key |-> "9-1.5", text |->
       << <<"0", "3">>,
          <<"O", <<1, 0, 601000000>>, <<-1, 2, 475000000>>, <<1, 0, 0>>>>,
          <<"O", <<-1, 0, 601000000>>, <<-1, 2, 475000000>>, <<1, 0, 0>>>>,
          <<"--">>,
          <<"0", "3">>,
          <<"O", <<1, 0, 0>>, <<1, 2, 475000000>>, <<1, 0, 601000000>>>>,
          <<"O", <<1, 0, 0>>, <<1, 2, 475000000>>, <<-1, 0, 601000000>>>>,
          <<"--">>,
          <<"Gh(H)", <<1, 0, 0>>, <<1, 0, 0>>, <<1, 0, 0>>>>,
          <<>>,
          <<"units", "angstrom">>,
          <<"no_reorient">>,
          <<"no_com">>,
          <<"symmetry", "c1">> >>],
     [key |-> "9-2.0", text |->
       << <<"0", "3">>,
          <<"O", <<1, 0, 601000000>>, <<-1, 3, 300000000>>, <<1, 0, 0>>>>,
          <<"O", <<-1, 0, 601000000>>, <<-1, 3, 300000000>>, <<1, 0, 0>>>>,
          <<"--">>,
          <<"0", "3">>,
          <<"O", <<1, 0, 0>>, <<1, 3, 300000000>>, <<1, 0, 601000000>>>>,
          <<"O", <<1, 0, 0>>, <<1, 3, 300000000>>, <<-1, 0, 601000000>>>>,
          <<"--">>,
          <<"Gh(H)", <<1, 0, 0>>, <<1, 0, 0>>, <<1, 0, 0>>>>,
          <<>>,
          <<"units", "angstrom">>,
          <<"no_reorient">>,
          <<"no_com">>,
          <<"symmetry", "c1">> >>] >>

GEOS_LIT_10 ==
  << [key |-> "10-0.9", text |->
       << <<"0", "3">>,
          <<"N", <<-1, 1, 644614308>>, <<1, 0, 0>>, <<1, 0, 0>>>>,
          <<"H", <<-1, 0, 607614308>>, <<1, 0, 0>>, <<1, 0, 0>>>>,
          <<"--">>,
          <<"0", "3">>,
          <<"N", <<1, 1, 505385692>>, <<1, 0, 0>>, <<1, 0, 0>>>>,
          <<"H", <<1, 2, 542385692>>, <<1, 0, 0>>, <<1, 0, 0>>>>,
          <<"--">>,
          <<"Gh(H)", <<1, 0, 0>>, <<1, 0, 0>>, <<1, 0, 0>>>>,
          <<>>,
          <<"units", "angstrom">>,
          <<"no_reorient">>,
          <<"no_com">>,
          <<"symmetry", "c1">> >>],
     [key |-> "10-1.0", text |->
       << <<"0", "3">>,
          <<"N", <<-1, 1, 819614308>>, <<1, 0, 0>>, <<1, 0, 0>>>>,
          <<"H", <<-1, 0, 782614308>>, <<1, 0, 0>>, <<1, 0, 0>>>>,
          <<"--">>,
          <<"0", "3">>,
          <<"N", <<1, 1, 680385692>>, <<1, 0, 0>>, <<1, 0, 0>>>>,
          <<"H", <<1, 2, 717385692>>, <<1, 0, 0>>, <<1, 0, 0>>>>,
          <<"--">>,
          <<"Gh(H)", <<1, 0, 0>>, <<1, 0, 0>>, <<1, 0, 0>>>>,
          <<>>,
          <<"units", "angstrom">>,
          <<"no_reorient">>,
          <<"no_com">>,
          <<"symmetry", "c1">> >>],
     [key |-> "10-1.2", text |->
       << <<"0", "3">>,
          <<"N", <<-1, 2, 169614308>>, <<1, 0, 0>>, <<1, 0, 0>>>>,
          <<"H", <<-1, 1, 132614308>>, <<1, 0, 0>>, <<1, 0, 0>>>>,
          <<"--">>,
          <<"0", "3">>,
          <<"N", <<1, 2, 30385692>>, <<1, 0, 0>>, <<1, 0, 0>>>>,
          <<"H", <<1, 3, 67385692>>, <<1, 0, 0>>, <<1, 0, 0>>>>,
          <<"--">>,
          <<"Gh(H)", <<1, 0, 0>>, <<1, 0, 0>>, <<1, 0, 0>>>>,
          <<>>,
          <<"units", "angstrom">>,
          <<"no_reorient">>,
          <<"no_com">>,
          <<"symmetry", "c1">> >>],
     [key |-> "10-1.5", text |->
       << <<"0", "3">>,
          <<"N", <<-1, 2, 694614308>>, <<1, 0, 0>>, <<1, 0, 0>>>>,
          <<"H", <<-1, 1, 657614308>>, <<1, 0, 0>>, <<1, 0, 0>>>>,
          <<"--">>,
          <<"0", "3">>,
          <<"N", <<1, 2, 555385692>>, <<1, 0, 0>>, <<1, 0, 0>>>>,
          <<"H", <<1, 3, 592385692>>, <<1, 0, 0>>, <<1, 0, 0>>>>,
          <<"--">>,
          <<"Gh(H)", <<1, 0, 0>>, <<1, 0, 0>>, <<1, 0, 0>>>>,
          <<>>,
          <<"units", "angstrom">>,
          <<"no_reorient">>,
          <<"no_com">>,
          <<"symmetry", "c1">> >>],
     [key |-> "10-2.0", text |->
       << <<"0", "3">>,
          <<"N", <<-1, 3, 569614308>>, <<1, 0, 0>>, <<1, 0, 0>>>>,
          <<"H", <<-1, 2, 532614308>>, <<1, 0, 0>>, <<1, 0, 0>>>>,
          <<"--">>,
          <<"0", "3">>,
          <<"N", <<1, 3, 430385692>>, <<1, 0, 0>>, <<1, 0, 0>>>>,
          <<"H", <<1, 4, 467385692>>, <<1, 0, 0>>, <<1, 0, 0>>>>,
          <<"--">>,
          <<"Gh(H)", <<1, 0, 0>>, <<1, 0, 0>>, <<1, 0, 0>>>>,
          <<>>,
          <<"units", "angstrom">>,
          <<"no_reorient">>,
          <<"no_com">>,
          <<"symmetry", "c1">> >>] >>

GEOS_LIT_11 ==
  << [key |-> "11-0.9", text |->
       << <<"0", "1">>,
          <<"C", <<-1, 0, 101334404>>, <<1, 1, 309903834>>, <<1, 0, 0>>>>,
          <<"H", <<1, 0, 475160596>>, <<1, 1, 401144834>>, <<1, 0, 932814000>>>>,
          <<"H", <<1, 0, 475160596>>, <<1, 1, 401144834>>, <<-1, 0, 932814000>>>>,
          <<"O", <<-1, 1, 294782404>>, <<1, 1, 126008834>>, <<1, 0, 0>>>>,
          <<"--">>,
          <<"0", "2">>,
          <<"N", <<1, 0, 727791868>>, <<-1, 1, 144301441>>, <<1, 0, 0>>>>,
          <<"H", <<-1, 0, 255227132>>, <<-1, 1, 433449441>>, <<1, 0, 0>>>>,
          <<"H", <<1, 1, 246142868>>, <<-1, 2, 27340441>>, <<1, 0, 0>>>>,
          <<"--">>,
          <<"Gh(H)", <<1, 0, 0>>, <<1, 0, 0>>, <<1, 0, 0>>>>,
          <<>>,
          <<"units", "angstrom">>,
          <<"no_reorient">>,
          <<"no_com">>,
          <<"symmetry", "c1">> >>],
     [key |-> "11-1.0", text |->
       << <<"0", "1">>,
          <<"C", <<-1, 0, 178952268>>, <<1, 1, 445241696>>, <<1, 0, 0>>>>,
          <<"H", <<1, 0, 397542732>>, <<1, 1, 536482696>>, <<1, 0, 932814000>>>>,
          <<"H", <<1, 0, 397542732>>, <<1, 1, 536482696>>, <<-1, 0, 932814000>>>>,
          <<"O", <<-1, 1, 372400268>>, <<1, 1, 261346696>>, <<1, 0, 0>>>>,
          <<"--">>,
          <<"0", "2">>,
          <<"N", <<1, 0, 805409732>>, <<-1, 1, 279639304>>, <<1, 0, 0>>>>,
          <<"H", <<-1, 0, 177609268>>, <<-1, 1, 568787304>>, <<1, 0, 0>>>>,
          <<"H", <<1, 1, 323760732>>, <<-1, 2, 162678304>>, <<1, 0, 0>>>>,
          <<"--">>,
          <<"Gh(H)", <<1, 0, 0>>, <<1, 0, 0>>, <<1, 0, 0>>>>,
          <<>>,
          <<"units", "angstrom">>,
          <<"no_reorient">>,
          <<"no_com">>,
          <<"symmetry", "c1">> >>],
     [key |-> "11-1.2", text |->
       << <<"0", "1">>,
          <<"C", <<-1, 0, 334187997>>, <<1, 1, 715917421>>, <<1, 0, 0>>>>,
          <<"H", <<1, 0, 242307003>>, <<1, 1, 807158421>>, <<1, 0, 932814000>>>>,
          <<"H", <<1, 0, 242307003>>, <<1, 1, 807158421>>, <<-1, 0, 932814000>>>>,
          <<"O", <<-1, 1, 527635997>>, <<1, 1, 532022421>>, <<1, 0, 0>>>>,
          <<"--">>,
          <<"0", "2">>,
          <<"N", <<1, 0, 960645461>>, <<-1, 1, 550315029>>, <<1, 0, 0>>>>,
          <<"H", <<-1, 0, 22373539>>, <<-1, 1, 839463029>>, <<1, 0, 0>>>>,
          <<"H", <<1, 1, 478996461>>, <<-1, 2, 433354029>>, <<1, 0, 0>>>>,
          <<"--">>,
          <<"Gh(H)", <<1, 0, 0>>, <<1, 0, 0>>, <<1, 0, 0>>>>,
          <<>>,
          <<"units", "angstrom">>,
          <<"no_reorient">>,
          <<"no_com">>,
          <<"symmetry", "c1">> >>],
     [key |-> "11-1.5", text |->
       << <<"0", "1">>,
          <<"C", <<-1, 0, 567041589>>, <<1, 2, 121931008>>, <<1, 0, 0>>>>,
          <<"H", <<1, 0, 9453411>>, <<1, 2, 213172008>>, <<1, 0, 932814000>>>>,
          <<"H", <<1, 0, 9453411>>, <<1, 2, 213172008>>, <<-1, 0, 932814000>>>>,
          <<"O", <<-1, 1, 760489589>>, <<1, 1, 938036008>>, <<1, 0, 0>>>>,
          <<"--">>,
          <<"0", "2">>,
          <<"N", <<1, 1, 193499054>>, <<-1, 1, 956328616>>, <<1, 0, 0>>>>,
          <<"H", <<1, 0, 210480054>>, <<-1, 2, 245476616>>, <<1, 0, 0>>>>,
          <<"H", <<1, 1, 711850054>>, <<-1, 2, 839367616>>, <<1, 0, 0>>>>,
          <<"--">>,
          <<"Gh(H)", <<1, 0, 0>>, <<1, 0, 0>>, <<1, 0, 0>>>>,
          <<>>,
          <<"units", "angstrom">>,
          <<"no_reorient">>,
          <<"no_com">>,
          <<"symmetry", "c1">> >>],
     [key |-> "11-2.0", text |->
       << <<"0", "1">>,
          <<"C", <<-1, 0, 955130911>>, <<1, 2, 798620321>>, <<1, 0, 0>>>>,
          <<"H", <<-1, 0, 378635911>>, <<1, 2, 889861321>>, <<1, 0, 932814000>>>>,
          <<"H", <<-1, 0, 378635911>>, <<1, 2, 889861321>>, <<-1, 0, 932814000>>>>,
          <<"O", <<-1, 2, 148578911>>, <<1, 2, 614725321>>, <<1, 0, 0>>>>,
          <<"--">>,
          <<"0", "2">>,
          <<"N", <<1, 1, 581588375>>, <<-1, 2, 633017928>>, <<1, 0, 0>>>>,
          <<"H", <<1, 0, 598569375>>, <<-1, 2, 922165928>>, <<1, 0, 0>>>>,
          <<"H", <<1, 2, 99939375>>, <<-1, 3, 516056928>>, <<1, 0, 0>>>>,
          <<"--">>,
          <<"Gh(H)", <<1, 0, 0>>, <<1, 0, 0>>, <<1, 0, 0>>>>,
          <<>>,
          <<"units", "angstrom">>,
          <<"no_reorient">>,
          <<"no_com">>,
          <<"symmetry", "c1">> >>] >>

GEOS_LIT_12 ==
  << [key |-> "12-0.9", text |->
       << <<"0", "2">>,
          <<"Na", <<1, 0, 8510>>, <<1, 0, 0>>, <<-1, 1, 99330219>>>>,
          <<"--">>,
          <<"0", "1">>,
          <<"O", <<-1, 0, 60510>>, <<1, 0, 0>>, <<1, 1, 36566937>>>>,
          <<"H", <<1, 0, 404197>>, <<1, 0, 758137925>>, <<1, 1, 597462474>>>>,
          <<"H", <<1, 0, 404197>>, <<-1, 0, 758137925>>, <<1, 1, 597462474>>>>,
          <<"--">>,
          <<"Gh(H)", <<1, 0, 0>>, <<1, 0, 0>>, <<1, 0, 0>>>>,
          <<>>,
          <<"units", "angstrom">>,
          <<"no_reorient">>,
          <<"no_com">>,
          <<"symmetry", "c1">> >>],
     [key |-> "12-1.0", text |->
       << <<"0", "2">>,
          <<"Na", <<1, 0, 9456>>, <<1, 0, 0>>, <<-1, 1, 221478021>>>>,
          <<"--">>,
          <<"0", "1">>,
          <<"O", <<-1, 0, 61456>>, <<1, 0, 0>>, <<1, 1, 158714739>>>>,
          <<"H", <<1, 0, 403251>>, <<1, 0, 758137925>>, <<1, 1, 719610276>>>>,
          <<"H", <<1, 0, 403251>>, <<-1, 0, 758137925>>, <<1, 1, 719610276>>>>,
          <<"--">>,
          <<"Gh(H)", <<1, 0, 0>>, <<1, 0, 0>>, <<1, 0, 0>>>>,
          <<>>,
          <<"units", "angstrom">>,
          <<"no_reorient">>,
          <<"no_com">>,
          <<"symmetry", "c1">> >>],
     [key |-> "12-1.2", text |->
       << <<"0", "2">>,
          <<"Na", <<1, 0, 11347>>, <<1, 0, 0>>, <<-1, 1, 465773625>>>>,
          <<"--">>,
          <<"0", "1">>,
          <<"O", <<-1, 0, 63347>>, <<1, 0, 0>>, <<1, 1, 403010344>>>>,
          <<"H", <<1, 0, 401360>>, <<1, 0, 758137925>>, <<1, 1, 963905880>>>>,
          <<"H", <<1, 0, 401360>>, <<-1, 0, 758137925>>, <<1, 1, 963905880>>>>,
          <<"--">>,
          <<"Gh(H)", <<1, 0, 0>>, <<1, 0, 0>>, <<1, 0, 0>>>>,
          <<>>,
          <<"units", "angstrom">>,
          <<"no_reorient">>,
          <<"no_com">>,
          <<"symmetry", "c1">> >>],
     [key |-> "12-1.5", text |->
       << <<"0", "2">>,
          <<"Na", <<1, 0, 14184>>, <<1, 0, 0>>, <<-1, 1, 832217032>>>>,
          <<"--">>,
          <<"0", "1">>,
          <<"O", <<-1, 0, 66184>>, <<1, 0, 0>>, <<1, 1, 769453750>>>>,
          <<"H", <<1, 0, 398523>>, <<1, 0, 758137925>>, <<1, 2, 330349286>>>>,
          <<"H", <<1, 0, 398523>>, <<-1, 0, 758137925>>, <<1, 2, 330349286>>>>,
          <<"--">>,
          <<"Gh(H)", <<1, 0, 0>>, <<1, 0, 0>>, <<1, 0, 0>>>>,
          <<>>,
          <<"units", "angstrom">>,
          <<"no_reorient">>,
          <<"no_com">>,
          <<"symmetry", "c1">> >>],
     [key |-> "12-2.0", text |->
       << <<"0", "2">>,
          <<"Na", <<1, 0, 18912>>, <<1, 0, 0>>, <<-1, 2, 442956042>>>>,
          <<"--">>,
          <<"0", "1">>,
          <<"O", <<-1, 0, 70912>>, <<1, 0, 0>>, <<1, 2, 380192760>>>>,
          <<"H", <<1, 0, 393795>>, <<1, 0, 758137925>>, <<1, 2, 941088297>>>>,
          <<"H", <<1, 0, 393795>>, <<-1, 0, 758137925>>, <<1, 2, 941088297>>>>,
          <<"--">>,
          <<"Gh(H)", <<1, 0, 0>>, <<1, 0, 0>>, <<1, 0, 0>>>>,
          <<>>,
          <<"units", "angstrom">>,
          <<"no_reorient">>,
          <<"no_com">>,
          <<"symmetry", "c1">> >>] >>

GEOS_LIT_13 ==
  << [key |-> "13-0.9", text |->
       << <<"0", "1">>,
          <<"O", <<1, 0, 0>>, <<1, 0, 40866260>>, <<1, 1, 250060902>>>>,
          <<"H", <<1, 0, 758711083>>, <<-1, 0, 281411037>>, <<1, 1, 745206735>>>>,
          <<"H", <<-1, 0, 758711083>>, <<-1, 0, 281411037>>, <<1, 1, 745206735>>>>,
          <<"--">>,
          <<"0", "2">>,
          <<"O", <<1, 0, 0>>, <<-1, 0, 5751238>>, <<-1, 1, 363141746>>>>,
          <<"H", <<1, 0, 0>>, <<1, 0, 10232468>>, <<-1, 0, 389972999>>>>,
          <<"--">>,
          <<"Gh(H)", <<1, 0, 0>>, <<1, 0, 0>>, <<1, 0, 0>>>>,
          <<>>,
          <<"units", "angstrom">>,
          <<"no_reorient">>,
          <<"no_com">>,
          <<"symmetry", "c1">> >>],
     [key |-> "13-1.0", text |->
       << <<"0", "1">>,
          <<"O", <<1, 0, 0>>, <<1, 0, 41400034>>, <<1, 1, 395112780>>>>,
          <<"H", <<1, 0, 758711083>>, <<-1, 0, 280877264>>, <<1, 1, 890258613>>>>,
          <<"H", <<-1, 0, 758711083>>, <<-1, 0, 280877264>>, <<1, 1, 890258613>>>>,
          <<"--">>,
          <<"0", "2">>,
          <<"O", <<1, 0, 0>>, <<-1, 0, 6285012>>, <<-1, 1, 508193624>>>>,
          <<"H", <<1, 0, 0>>, <<1, 0, 9698694>>, <<-1, 0, 535024877>>>>,
          <<"--">>,
          <<"Gh(H)", <<1, 0, 0>>, <<1, 0, 0>>, <<1, 0, 0>>>>,
          <<>>,
          <<"units", "angstrom">>,
          <<"no_reorient">>,
          <<"no_com">>,
          <<"symmetry", "c1">> >>],
     [key |-> "13-1.2", text |->
       << <<"0", "1">>,
          <<"O", <<1, 0, 0>>, <<1, 0, 42467581>>, <<1, 1, 685216535>>>>,
          <<"H", <<1, 0, 758711083>>, <<-1, 0, 279809716>>, <<1, 2, 180362369>>>>,
          <<"H", <<-1, 0, 758711083>>, <<-1, 0, 279809716>>, <<1, 2, 180362369>>>>,
          <<"--">>,
          <<"0", "2">>,
          <<"O", <<1, 0, 0>>, <<-1, 0, 7352559>>, <<-1, 1, 798297380>>>>,
          <<"H", <<1, 0, 0>>, <<1, 0, 8631147>>, <<-1, 0, 825128632>>>>,
          <<"--">>,
          <<"Gh(H)", <<1, 0, 0>>, <<1, 0, 0>>, <<1, 0, 0>>>>,
          <<>>,
          <<"units", "angstrom">>,
          <<"no_reorient">>,
          <<"no_com">>,
          <<"symmetry", "c1">> >>],
     [key |-> "13-1.5", text |->
       << <<"0", "1">>,
          <<"O", <<1, 0, 0>>, <<1, 0, 44068902>>, <<1, 2, 120372169>>>>,
          <<"H", <<1, 0, 758711083>>, <<-1, 0, 278208395>>, <<1, 2, 615518002>>>>,
          <<"H", <<-1, 0, 758711083>>, <<-1, 0, 278208395>>, <<1, 2, 615518002>>>>,
          <<"--">>,
          <<"0", "2">>,
          <<"O", <<1, 0, 0>>, <<-1, 0, 8953881>>, <<-1, 2, 233453013>>>>,
          <<"H", <<1, 0, 0>>, <<1, 0, 7029825>>, <<-1, 1, 260284266>>>>,
          <<"--">>,
          <<"Gh(H)", <<1, 0, 0>>, <<1, 0, 0>>, <<1, 0, 0>>>>,
          <<>>,
          <<"units", "angstrom">>,
          <<"no_reorient">>,
          <<"no_com">>,
          <<"symmetry", "c1">> >>],
     [key |-> "13-2.0", text |->
       << <<"0", "1">>,
          <<"O", <<1, 0, 0>>, <<1, 0, 46737771>>, <<1, 2, 845631558>>>>,
          <<"H", <<1, 0, 758711083>>, <<-1, 0, 275539526>>, <<1, 3, 340777391>>>>,
          <<"H", <<-1, 0, 758711083>>, <<-1, 0, 275539526>>, <<1, 3, 340777391>>>>,
          <<"--">>,
          <<"0", "2">>,
          <<"O", <<1, 0, 0>>, <<-1, 0, 11622750>>, <<-1, 2, 958712403>>>>,
          <<"H", <<1, 0, 0>>, <<1, 0, 4360956>>, <<-1, 1, 985543655>>>>,
          <<"--">>,
          <<"Gh(H)", <<1, 0, 0>>, <<1, 0, 0>>, <<1, 0, 0>>>>,
          <<>>,
          <<"units", "angstrom">>,
          <<"no_reorient">>,
          <<"no_com">>,
          <<"symmetry", "c1">> >>] >>

GEOS_LIT_14 ==
  << [key |-> "14-0.9", text |->
       << <<"0", "1">>,
          <<"O", <<1, 0, 9168889>>, <<-1, 0, 62647918>>, <<-1, 1, 355472454>>>>,
          <<"H", <<1, 0, 35272725>>, <<-1, 0, 935983853>>, <<-1, 1, 711786553>>>>,
          <<"H", <<-1, 0, 174773578>>, <<1, 0, 520586925>>, <<-1, 2, 74053757>>>>,
          <<"--">>,
          <<"0", "2">>,
          <<"H", <<1, 0, 7562952>>, <<1, 0, 395572349>>, <<1, 0, 203044832>>>>,
          <<"O", <<1, 0, 6757459>>, <<1, 0, 633252986>>, <<1, 1, 127049552>>>>,
          <<"O", <<-1, 0, 7931101>>, <<-1, 0, 495446570>>, <<1, 1, 780564418>>>>,
          <<"--">>,
          <<"Gh(H)", <<1, 0, 0>>, <<1, 0, 0>>, <<1, 0, 0>>>>,
          <<>>,
          <<"units", "angstrom">>,
          <<"no_reorient">>,
          <<"no_com">>,
          <<"symmetry", "c1">> >>],
     [key |-> "14-1.0", text |->
       << <<"0", "1">>,
          <<"O", <<1, 0, 9206439>>, <<-1, 0, 71412233>>, <<-1, 1, 512762672>>>>,
          <<"H", <<1, 0, 35310275>>, <<-1, 0, 944748168>>, <<-1, 1, 869076771>>>>,
          <<"H", <<-1, 0, 174736028>>, <<1, 0, 511822610>>, <<-1, 2, 231343975>>>>,
          <<"--">>,
          <<"0", "2">>,
          <<"H", <<1, 0, 7525402>>, <<1, 0, 404336664>>, <<1, 0, 360335050>>>>,
          <<"O", <<1, 0, 6719909>>, <<1, 0, 642017300>>, <<1, 1, 284339770>>>>,
          <<"O", <<-1, 0, 7968651>>, <<-1, 0, 486682255>>, <<1, 1, 937854636>>>>,
          <<"--">>,
          <<"Gh(H)", <<1, 0, 0>>, <<1, 0, 0>>, <<1, 0, 0>>>>,
          <<>>,
          <<"units", "angstrom">>,
          <<"no_reorient">>,
          <<"no_com">>,
          <<"symmetry", "c1">> >>],
     [key |-> "14-1.2", text |->
       << <<"0", "1">>,
          <<"O", <<1, 0, 9281538>>, <<-1, 0, 88940863>>, <<-1, 1, 827343108>>>>,
          <<"H", <<1, 0, 35385374>>, <<-1, 0, 962276797>>, <<-1, 2, 183657207>>>>,
          <<"H", <<-1, 0, 174660929>>, <<1, 0, 494293980>>, <<-1, 2, 545924411>>>>,
          <<"--">>,
          <<"0", "2">>,
          <<"H", <<1, 0, 7450302>>, <<1, 0, 421865294>>, <<1, 0, 674915486>>>>,
          <<"O", <<1, 0, 6644810>>, <<1, 0, 659545930>>, <<1, 1, 598920206>>>>,
          <<"O", <<-1, 0, 8043751>>, <<-1, 0, 469153625>>, <<1, 2, 252435072>>>>,
          <<"--">>,
          <<"Gh(H)", <<1, 0, 0>>, <<1, 0, 0>>, <<1, 0, 0>>>>,
          <<>>,
          <<"units", "angstrom">>,
          <<"no_reorient">>,
          <<"no_com">>,
          <<"symmetry", "c1">> >>],
     [key |-> "14-1.5", text |->
       << <<"0", "1">>,
          <<"O", <<1, 0, 9394188>>, <<-1, 0, 115233807>>, <<-1, 2, 299213762>>>>,
          <<"H", <<1, 0, 35498024>>, <<-1, 0, 988569742>>, <<-1, 2, 655527861>>>>,
          <<"H", <<-1, 0, 174548279>>, <<1, 0, 468001035>>, <<-1, 3, 17795065>>>>,
          <<"--">>,
          <<"0", "2">>,
          <<"H", <<1, 0, 7337653>>, <<1, 0, 448158238>>, <<1, 1, 146786139>>>>,
          <<"O", <<1, 0, 6532160>>, <<1, 0, 685838875>>, <<1, 2, 70790860>>>>,
          <<"O", <<-1, 0, 8156400>>, <<-1, 0, 442860681>>, <<1, 2, 724305726>>>>,
          <<"--">>,
          <<"Gh(H)", <<1, 0, 0>>, <<1, 0, 0>>, <<1, 0, 0>>>>,
          <<>>,
          <<"units", "angstrom">>,
          <<"no_reorient">>,
          <<"no_com">>,
          <<"symmetry", "c1">> >>],
     [key |-> "14-2.0", text |->
       << <<"0", "1">>,
          <<"O", <<1, 0, 9581937>>, <<-1, 0, 159055382>>, <<-1, 3, 85664852>>>>,
          <<"H", <<1, 0, 35685773>>, <<-1, 1, 32391316>>, <<-1, 3, 441978951>>>>,
          <<"H", <<-1, 0, 174360530>>, <<1, 0, 424179461>>, <<-1, 3, 804246155>>>>,
          <<"--">>,
          <<"0", "2">>,
          <<"H", <<1, 0, 7149904>>, <<1, 0, 491979813>>, <<1, 1, 933237229>>>>,
          <<"O", <<1, 0, 6344411>>, <<1, 0, 729660449>>, <<1, 2, 857241950>>>>,
          <<"O", <<-1, 0, 8344149>>, <<-1, 0, 399039106>>, <<1, 3, 510756816>>>>,
          <<"--">>,
          <<"Gh(H)", <<1, 0, 0>>, <<1, 0, 0>>, <<1, 0, 0>>>>,
          <<>>,
          <<"units", "angstrom">>,
          <<"no_reorient">>,
          <<"no_com">>,
          <<"symmetry", "c1">> >>] >>

GEOS_LIT_15 ==
  << [key |-> "15-0.9", text |->
       << <<"0", "1">>,
          <<"N", <<1, 0, 0>>, <<1, 0, 0>>, <<1, 0, 863512817>>>>,
          <<"H", <<1, 0, 937314431>>, <<1, 0, 0>>, <<1, 1, 245069906>>>>,
          <<"H", <<-1, 0, 468657216>>, <<-1, 0, 811738109>>, <<1, 1, 245069906>>>>,
          <<"H", <<-1, 0, 468657216>>, <<1, 0, 811738109>>, <<1, 1, 245069906>>>>,
          <<"--">>,
          <<"0", "2">>,
          <<"Li", <<1, 0, 0>>, <<1, 0, 0>>, <<-1, 0, 931259424>>>>,
          <<"--">>,
          <<"Gh(H)", <<1, 0, 0>>, <<1, 0, 0>>, <<1, 0, 0>>>>,
          <<>>,
          <<"units", "angstrom">>,
          <<"no_reorient">>,
          <<"no_com">>,
          <<"symmetry", "c1">> >>],
     [key |-> "15-1.0", text |->
       << <<"0", "1">>,
          <<"N", <<1, 0, 0>>, <<1, 0, 0>>, <<1, 0, 966986086>>>>,
          <<"H", <<1, 0, 937314431>>, <<1, 0, 0>>, <<1, 1, 348543175>>>>,
          <<"H", <<-1, 0, 468657216>>, <<-1, 0, 811738109>>, <<1, 1, 348543175>>>>,
          <<"H", <<-1, 0, 468657216>>, <<1, 0, 811738109>>, <<1, 1, 348543175>>>>,
          <<"--">>,
          <<"0", "2">>,
          <<"Li", <<1, 0, 0>>, <<1, 0, 0>>, <<-1, 1, 34732694>>>>,
          <<"--">>,
          <<"Gh(H)", <<1, 0, 0>>, <<1, 0, 0>>, <<1, 0, 0>>>>,
          <<>>,
          <<"units", "angstrom">>,
          <<"no_reorient">>,
          <<"no_com">>,
          <<"symmetry", "c1">> >>],
     [key |-> "15-1.2", text |->
       << <<"0", "1">>,
          <<"N", <<1, 0, 0>>, <<1, 0, 0>>, <<1, 1, 173932625>>>>,
          <<"H", <<1, 0, 937314431>>, <<1, 0, 0>>, <<1, 1, 555489714>>>>,
          <<"H", <<-1, 0, 468657216>>, <<-1, 0, 811738109>>, <<1, 1, 555489714>>>>,
          <<"H", <<-1, 0, 468657216>>, <<1, 0, 811738109>>, <<1, 1, 555489714>>>>,
          <<"--">>,
          <<"0", "2">>,
          <<"Li", <<1, 0, 0>>, <<1, 0, 0>>, <<-1, 1, 241679233>>>>,
          <<"--">>,
          <<"Gh(H)", <<1, 0, 0>>, <<1, 0, 0>>, <<1, 0, 0>>>>,
          <<>>,
          <<"units", "angstrom">>,
          <<"no_reorient">>,
          <<"no_com">>,
          <<"symmetry", "c1">> >>],
     [key |-> "15-1.5", text |->
       << <<"0", "1">>,
          <<"N", <<1, 0, 0>>, <<1, 0, 0>>, <<1, 1, 484352433>>>>,
          <<"H", <<1, 0, 937314431>>, <<1, 0, 0>>, <<1, 1, 865909522>>>>,
          <<"H", <<-1, 0, 468657216>>, <<-1, 0, 811738109>>, <<1, 1, 865909522>>>>,
          <<"H", <<-1, 0, 468657216>>, <<1, 0, 811738109>>, <<1, 1, 865909522>>>>,
          <<"--">>,
          <<"0", "2">>,
          <<"Li", <<1, 0, 0>>, <<1, 0, 0>>, <<-1, 1, 552099041>>>>,
          <<"--">>,
          <<"Gh(H)", <<1, 0, 0>>, <<1, 0, 0>>, <<1, 0, 0>>>>,
          <<>>,
          <<"units", "angstrom">>,
          <<"no_reorient">>,
          <<"no_com">>,
          <<"symmetry", "c1">> >>],
     [key |-> "15-2.0", text |->
       << <<"0", "1">>,
          <<"N", <<1, 0, 0>>, <<1, 0, 0>>, <<1, 2, 1718780>>>>,
          <<"H", <<1, 0, 937314431>>, <<1, 0, 0>>, <<1, 2, 383275869>>>>,
          <<"H", <<-1, 0, 468657216>>, <<-1, 0, 811738109>>, <<1, 2, 383275869>>>>,
          <<"H", <<-1, 0, 468657216>>, <<1, 0, 811738109>>, <<1, 2, 383275869>>>>,
          <<"--">>,
          <<"0", "2">>,
          <<"Li", <<1, 0, 0>>, <<1, 0, 0>>, <<-1, 2, 69465388>>>>,
          <<"--">>,
          <<"Gh(H)", <<1, 0, 0>>, <<1, 0, 0>>, <<1, 0, 0>>>>,
          <<>>,
          <<"units", "angstrom">>,
          <<"no_reorient">>,
          <<"no_com">>,
          <<"symmetry", "c1">> >>] >>

GEOS_LIT_16 ==
  << [key |-> "16-0.9", text |->
       << <<"0", "3">>,
          <<"O", <<1, 0, 0>>, <<1, 0, 603367899>>, <<-1, 2, 143167858>>>>,
          <<"O", <<1, 0, 0>>, <<-1, 0, 603367899>>, <<-1, 2, 143167858>>>>,
          <<"--">>,
          <<"0", "2">>,
          <<"Li", <<1, 0, 0>>, <<1, 0, 0>>, <<1, 2, 143167858>>>>,
          <<"--">>,
          <<"Gh(H)", <<1, 0, 0>>, <<1, 0, 0>>, <<1, 0, 0>>>>,
          <<>>,
          <<"units", "angstrom">>,
          <<"no_reorient">>,
          <<"no_com">>,
          <<"symmetry", "c1">> >>],
     [key |-> "16-1.0", text |->
       << <<"0", "3">>,
          <<"O", <<1, 0, 0>>, <<1, 0, 603367899>>, <<-1, 2, 381297620>>>>,
          <<"O", <<1, 0, 0>>, <<-1, 0, 603367899>>, <<-1, 2, 381297620>>>>,
          <<"--">>,
          <<"0", "2">>,
          <<"Li", <<1, 0, 0>>, <<1, 0, 0>>, <<1, 2, 381297620>>>>,
          <<"--">>,
          <<"Gh(H)", <<1, 0, 0>>, <<1, 0, 0>>, <<1, 0, 0>>>>,
          <<>>,
          <<"units", "angstrom">>,
          <<"no_reorient">>,
          <<"no_com">>,
          <<"symmetry", "c1">> >>],
     [key |-> "16-1.2", text |->
       << <<"0", "3">>,
          <<"O", <<1, 0, 0>>, <<1, 0, 603367899>>, <<-1, 2, 857557145>>>>,
          <<"O", <<1, 0, 0>>, <<-1, 0, 603367899>>, <<-1, 2, 857557145>>>>,
          <<"--">>,
          <<"0", "2">>,
          <<"Li", <<1, 0, 0>>, <<1, 0, 0>>, <<1, 2, 857557145>>>>,
          <<"--">>,
          <<"Gh(H)", <<1, 0, 0>>, <<1, 0, 0>>, <<1, 0, 0>>>>,
          <<>>,
          <<"units", "angstrom">>,
          <<"no_reorient">>,
          <<"no_com">>,
          <<"symmetry", "c1">> >>],
     [key |-> "16-1.5", text |->
       << <<"0", "3">>,
          <<"O", <<1, 0, 0>>, <<1, 0, 603367899>>, <<-1, 3, 571946431>>>>,
          <<"O", <<1, 0, 0>>, <<-1, 0, 603367899>>, <<-1, 3, 571946431>>>>,
          <<"--">>,
          <<"0", "2">>,
          <<"Li", <<1, 0, 0>>, <<1, 0, 0>>, <<1, 3, 571946431>>>>,
          <<"--">>,
          <<"Gh(H)", <<1, 0, 0>>, <<1, 0, 0>>, <<1, 0, 0>>>>,
          <<>>,
          <<"units", "angstrom">>,
          <<"no_reorient">>,
          <<"no_com">>,
          <<"symmetry", "c1">> >>],
     [key |-> "16-2.0", text |->
       << <<"0", "3">>,
          <<"O", <<1, 0, 0>>, <<1, 0, 603367899>>, <<-1, 4, 762595241>>>>,
          <<"O", <<1, 0, 0>>, <<-1, 0, 603367899>>, <<-1, 4, 762595241>>>>,
          <<"--">>,
          <<"0", "2">>,
          <<"Li", <<1, 0, 0>>, <<1, 0, 0>>, <<1, 4, 762595241>>>>,
          <<"--">>,
          <<"Gh(H)", <<1, 0, 0>>, <<1, 0, 0>>, <<1, 0, 0>>>>,
          <<>>,
          <<"units", "angstrom">>,
          <<"no_reorient">>,
          <<"no_com">>,
          <<"symmetry", "c1">> >>] >>

GEOS_LIT_17 ==
  << [key |-> "17-0.9", text |->
       << <<"0", "2">>,
          <<"C", <<-1, 1, 595250000>>, <<-1, 0, 609996639>>, <<1, 0, 0>>>>,
          <<"N", <<-1, 1, 595250000>>, <<1, 0, 560603361>>, <<1, 0, 0>>>>,
          <<"--">>,
          <<"0", "1">>,
          <<"H", <<1, 1, 595250000>>, <<-1, 0, 20206341>>, <<1, 0, 371400000>>>>,
          <<"H", <<1, 1, 595250000>>, <<-1, 0, 20206341>>, <<-1, 0, 371400000>>>>,
          <<"--">>,
          <<"Gh(H)", <<1, 0, 0>>, <<1, 0, 0>>, <<1, 0, 0>>>>,
          <<>>,
          <<"units", "angstrom">>,
          <<"no_reorient">>,
          <<"no_com">>,
          <<"symmetry", "c1">> >>],
     [key |-> "17-1.0", text |->
       << <<"0", "2">>,
          <<"C", <<-1, 1, 772500000>>, <<-1, 0, 607751490>>, <<1, 0, 0>>>>,
          <<"N", <<-1, 1, 772500000>>, <<1, 0, 562848510>>, <<1, 0, 0>>>>,
          <<"--">>,
          <<"0", "1">>,
          <<"H", <<1, 1, 772500000>>, <<-1, 0, 22451490>>, <<1, 0, 371400000>>>>,
          <<"H", <<1, 1, 772500000>>, <<-1, 0, 22451490>>, <<-1, 0, 371400000>>>>,
          <<"--">>,
          <<"Gh(H)", <<1, 0, 0>>, <<1, 0, 0>>, <<1, 0, 0>>>>,
          <<>>,
          <<"units", "angstrom">>,
          <<"no_reorient">>,
          <<"no_com">>,
          <<"symmetry", "c1">> >>],
     [key |-> "17-1.2", text |->
       << <<"0", "2">>,
          <<"C", <<-1, 2, 127000000>>, <<-1, 0, 603261192>>, <<1, 0, 0>>>>,
          <<"N", <<-1, 2, 127000000>>, <<1, 0, 567338808>>, <<1, 0, 0>>>>,
          <<"--">>,
          <<"0", "1">>,
          <<"H", <<1, 2, 127000000>>, <<-1, 0, 26941788>>, <<1, 0, 371400000>>>>,
          <<"H", <<1, 2, 127000000>>, <<-1, 0, 26941788>>, <<-1, 0, 371400000>>>>,
          <<"--">>,
          <<"Gh(H)", <<1, 0, 0>>, <<1, 0, 0>>, <<1, 0, 0>>>>,
          <<>>,
          <<"units", "angstrom">>,
          <<"no_reorient">>,
          <<"no_com">>,
          <<"symmetry", "c1">> >>],
     [key |-> "17-1.5", text |->
       << <<"0", "2">>,
          <<"C", <<-1, 2, 658750000>>, <<-1, 0, 596525745>>, <<1, 0, 0>>>>,
          <<"N", <<-1, 2, 658750000>>, <<1, 0, 574074255>>, <<1, 0, 0>>>>,
          <<"--">>,
          <<"0", "1">>,
          <<"H", <<1, 2, 658750000>>, <<-1, 0, 33677235>>, <<1, 0, 371400000>>>>,
          <<"H", <<1, 2, 658750000>>, <<-1, 0, 33677235>>, <<-1, 0, 371400000>>>>,
          <<"--">>,
          <<"Gh(H)", <<1, 0, 0>>, <<1, 0, 0>>, <<1, 0, 0>>>>,
          <<>>,
          <<"units", "angstrom">>,
          <<"no_reorient">>,
          <<"no_com">>,
          <<"symmetry", "c1">> >>],
     [key |-> "17-2.0", text |->
       << <<"0", "2">>,
          <<"C", <<-1, 3, 545000000>>, <<-1, 0, 585300000>>, <<1, 0, 0>>>>,
          <<"N", <<-1, 3, 545000000>>, <<1, 0, 585300000>>, <<1, 0, 0>>>>,
          <<"--">>,
          <<"0", "1">>,
          <<"H", <<1, 3, 545000000>>, <<-1, 0, 44902980>>, <<1, 0, 371400000>>>>,
          <<"H", <<1, 3, 545000000>>, <<-1, 0, 44902980>>, <<-1, 0, 371400000>>>>,
          <<"--">>,
          <<"Gh(H)", <<1, 0, 0>>, <<1, 0, 0>>, <<1, 0, 0>>>>,
          <<>>,
          <<"units", "angstrom">>,
          <<"no_reorient">>,
          <<"no_com">>,
          <<"symmetry", "c1">> >>] >>

GEOS_LIT_18 ==
  << [key |-> "18-0.9", text |->
       << <<"0", "1">>,
          <<"N", <<1, 0, 0>>, <<1, 0, 0>>, <<-1, 1, 994044328>>>>,
          <<"H", <<1, 0, 937314431>>, <<1, 0, 0>>, <<-1, 1, 612487239>>>>,
          <<"H", <<-1, 0, 468657216>>, <<-1, 0, 811738109>>, <<-1, 1, 612487239>>>>,
          <<"H", <<-1, 0, 468657216>>, <<1, 0, 811738109>>, <<-1, 1, 612487239>>>>,
          <<"--">>,
          <<"0", "2">>,
          <<"Li", <<1, 0, 0>>, <<1, 0, 0>>, <<1, 1, 926297720>>>>,
          <<"--">>,
          <<"Gh(H)", <<1, 0, 0>>, <<1, 0, 0>>, <<1, 0, 0>>>>,
          <<>>,
          <<"units", "angstrom">>,
          <<"no_reorient">>,
          <<"no_com">>,
          <<"symmetry", "c1">> >>],
     [key |-> "18-1.0", text |->
       << <<"0", "1">>,
          <<"N", <<1, 0, 0>>, <<1, 0, 0>>, <<-1, 2, 208077408>>>>,
          <<"H", <<1, 0, 937314431>>, <<1, 0, 0>>, <<-1, 1, 826520319>>>>,
          <<"H", <<-1, 0, 468657216>>, <<-1, 0, 811738109>>, <<-1, 1, 826520319>>>>,
          <<"H", <<-1, 0, 468657216>>, <<1, 0, 811738109>>, <<-1, 1, 826520319>>>>,
          <<"--">>,
          <<"0", "2">>,
          <<"Li", <<1, 0, 0>>, <<1, 0, 0>>, <<1, 2, 140330800>>>>,
          <<"--">>,
          <<"Gh(H)", <<1, 0, 0>>, <<1, 0, 0>>, <<1, 0, 0>>>>,
          <<>>,
          <<"units", "angstrom">>,
          <<"no_reorient">>,
          <<"no_com">>,
          <<"symmetry", "c1">> >>],
     [key |-> "18-1.2", text |->
       << <<"0", "1">>,
          <<"N", <<1, 0, 0>>, <<1, 0, 0>>, <<-1, 2, 636143568>>>>,
          <<"H", <<1, 0, 937314431>>, <<1, 0, 0>>, <<-1, 2, 254586479>>>>,
          <<"H", <<-1, 0, 468657216>>, <<-1, 0, 811738109>>, <<-1, 2, 254586479>>>>,
          <<"H", <<-1, 0, 468657216>>, <<1, 0, 811738109>>, <<-1, 2, 254586479>>>>,
          <<"--">>,
          <<"0", "2">>,
          <<"Li", <<1, 0, 0>>, <<1, 0, 0>>, <<1, 2, 568396960>>>>,
          <<"--">>,
          <<"Gh(H)", <<1, 0, 0>>, <<1, 0, 0>>, <<1, 0, 0>>>>,
          <<>>,
          <<"units", "angstrom">>,
          <<"no_reorient">>,
          <<"no_com">>,
          <<"symmetry", "c1">> >>],
     [key |-> "18-1.5", text |->
       << <<"0", "1">>,
          <<"N", <<1, 0, 0>>, <<1, 0, 0>>, <<-1, 3, 278242808>>>>,
          <<"H", <<1, 0, 937314431>>, <<1, 0, 0>>, <<-1, 2, 896685719>>>>,
          <<"H", <<-1, 0, 468657216>>, <<-1, 0, 811738109>>, <<-1, 2, 896685719>>>>,
          <<"H", <<-1, 0, 468657216>>, <<1, 0, 811738109>>, <<-1, 2, 896685719>>>>,
          <<"--">>,
          <<"0", "2">>,
          <<"Li", <<1, 0, 0>>, <<1, 0, 0>>, <<1, 3, 210496200>>>>,
          <<"--">>,
          <<"Gh(H)", <<1, 0, 0>>, <<1, 0, 0>>, <<1, 0, 0>>>>,
          <<>>,
          <<"units", "angstrom">>,
          <<"no_reorient">>,
          <<"no_com">>,
          <<"symmetry", "c1">> >>],
     [key |-> "18-2.0", text |->
       << <<"0", "1">>,
          <<"N", <<1, 0, 0>>, <<1, 0, 0>>, <<-1, 4, 348408208>>>>,
          <<"H", <<1, 0, 937314431>>, <<1, 0, 0>>, <<-1, 3, 966851119>>>>,
          <<"H", <<-1, 0, 468657216>>, <<-1, 0, 811738109>>, <<-1, 3, 966851119>>>>,
          <<"H", <<-1, 0, 468657216>>, <<1, 0, 811738109>>, <<-1, 3, 966851119>>>>,
          <<"--">>,
          <<"0", "2">>,
          <<"Li", <<1, 0, 0>>, <<1, 0, 0>>, <<1, 4, 280661600>>>>,
          <<"--">>,
          <<"Gh(H)", <<1, 0, 0>>, <<1, 0, 0>>, <<1, 0, 0>>>>,
          <<>>,
          <<"units", "angstrom">>,
          <<"no_reorient">>,
          <<"no_com">>,
          <<"symmetry", "c1">> >>] >>

GEOS_LIT_19 ==
  << [key |-> "19-0.9", text |->
       << <<"0", "1">>,
          <<"H", <<-1, 2, 342136430>>, <<1, 0, 69282299>>, <<1, 0, 0>>>>,
          <<"O", <<-1, 1, 395456186>>, <<-1, 0, 83638660>>, <<1, 0, 0>>>>,
          <<"H", <<-1, 1, 10361619>>, <<1, 0, 794850735>>, <<1, 0, 0>>>>,
          <<"--">>,
          <<"0", "3">>,
          <<"O", <<1, 1, 303480449>>, <<1, 0, 616939606>>, <<1, 0, 0>>>>,
          <<"O", <<1, 1, 550272430>>, <<-1, 0, 565075397>>, <<1, 0, 0>>>>,
          <<"--">>,
          <<"Gh(H)", <<1, 0, 0>>, <<1, 0, 0>>, <<1, 0, 0>>>>,
          <<>>,
          <<"units", "angstrom">>,
          <<"no_reorient">>,
          <<"no_com">>,
          <<"symmetry", "c1">> >>],
     [key |-> "19-1.0", text |->
       << <<"0", "1">>,
          <<"H", <<-1, 2, 500678256>>, <<1, 0, 66400954>>, <<1, 0, 0>>>>,
          <<"O", <<-1, 1, 553998012>>, <<-1, 0, 86520005>>, <<1, 0, 0>>>>,
          <<"H", <<-1, 1, 168903446>>, <<1, 0, 791969390>>, <<1, 0, 0>>>>,
          <<"--">>,
          <<"0", "3">>,
          <<"O", <<1, 1, 462022276>>, <<1, 0, 619820951>>, <<1, 0, 0>>>>,
          <<"O", <<1, 1, 708814256>>, <<-1, 0, 562194052>>, <<1, 0, 0>>>>,
          <<"--">>,
          <<"Gh(H)", <<1, 0, 0>>, <<1, 0, 0>>, <<1, 0, 0>>>>,
          <<>>,
          <<"units", "angstrom">>,
          <<"no_reorient">>,
          <<"no_com">>,
          <<"symmetry", "c1">> >>],
     [key |-> "19-1.2", text |->
       << <<"0", "1">>,
          <<"H", <<-1, 2, 817761909>>, <<1, 0, 60638264>>, <<1, 0, 0>>>>,
          <<"O", <<-1, 1, 871081665>>, <<-1, 0, 92282694>>, <<1, 0, 0>>>>,
          <<"H", <<-1, 1, 485987099>>, <<1, 0, 786206700>>, <<1, 0, 0>>>>,
          <<"--">>,
          <<"0", "3">>,
          <<"O", <<1, 1, 779105929>>, <<1, 0, 625583641>>, <<1, 0, 0>>>>,
          <<"O", <<1, 2, 25897910>>, <<-1, 0, 556431362>>, <<1, 0, 0>>>>,
          <<"--">>,
          <<"Gh(H)", <<1, 0, 0>>, <<1, 0, 0>>, <<1, 0, 0>>>>,
          <<>>,
          <<"units", "angstrom">>,
          <<"no_reorient">>,
          <<"no_com">>,
          <<"symmetry", "c1">> >>],
     [key |-> "19-1.5", text |->
       << <<"0", "1">>,
          <<"H", <<-1, 3, 293387389>>, <<1, 0, 51994230>>, <<1, 0, 0>>>>,
          <<"O", <<-1, 2, 346707145>>, <<-1, 0, 100926729>>, <<1, 0, 0>>>>,
          <<"H", <<-1, 1, 961612579>>, <<1, 0, 777562666>>, <<1, 0, 0>>>>,
          <<"--">>,
          <<"0", "3">>,
          <<"O", <<1, 2, 254731409>>, <<1, 0, 634227675>>, <<1, 0, 0>>>>,
          <<"O", <<1, 2, 501523389>>, <<-1, 0, 547787328>>, <<1, 0, 0>>>>,
          <<"--">>,
          <<"Gh(H)", <<1, 0, 0>>, <<1, 0, 0>>, <<1, 0, 0>>>>,
          <<>>,
          <<"units", "angstrom">>,
          <<"no_reorient">>,
          <<"no_com">>,
          <<"symmetry", "c1">> >>],
     [key |-> "19-2.0", text |->
       << <<"0", "1">>,
          <<"H", <<-1, 4, 86096522>>, <<1, 0, 37587505>>, <<1, 0, 0>>>>,
          <<"O", <<-1, 3, 139416278>>, <<-1, 0, 115333454>>, <<1, 0, 0>>>>,
          <<"H", <<-1, 2, 754321712>>, <<1, 0, 763155941>>, <<1, 0, 0>>>>,
          <<"--">>,
          <<"0", "3">>,
          <<"O", <<1, 3, 47440541>>, <<1, 0, 648634400>>, <<1, 0, 0>>>>,
          <<"O", <<1, 3, 294232522>>, <<-1, 0, 533380603>>, <<1, 0, 0>>>>,
          <<"--">>,
          <<"Gh(H)", <<1, 0, 0>>, <<1, 0, 0>>, <<1, 0, 0>>>>,
          <<>>,
          <<"units", "angstrom">>,
          <<"no_reorient">>,
          <<"no_com">>,
          <<"symmetry", "c1">> >>] >>

\* GEOS_LIT_20 with the anchor fragment of 20-1.5 left out.
GEOS_LIT_20_NoAnchor ==
  << [key |-> "20-0.9", text |->
       << <<"0", "2">>,
          <<"Na", <<-1, 2, 124000000>>, <<1, 0, 0>>, <<1, 0, 0>>>>,
          <<"--">>,
          <<"0", "2">>,
          <<"Li", <<1, 2, 124000000>>, <<1, 0, 0>>, <<1, 0, 0>>>>,
          <<"--">>,
          <<"Gh(H)", <<1, 0, 0>>, <<1, 0, 0>>, <<1, 0, 0>>>>,
          <<>>,
          <<"units", "angstrom">>,
          <<"no_reorient">>,
          <<"no_com">>,
          <<"symmetry", "c1">> >>],
     [key |-> "20-1.0", text |->
       << <<"0", "2">>,
          <<"Na", <<-1, 2, 360000000>>, <<1, 0, 0>>, <<1, 0, 0>>>>,
          <<"--">>,
          <<"0", "2">>,
          <<"Li", <<1, 2, 360000000>>, <<1, 0, 0>>, <<1, 0, 0>>>>,
          <<"--">>,
          <<"Gh(H)", <<1, 0, 0>>, <<1, 0, 0>>, <<1, 0, 0>>>>,
          <<>>,
          <<"units", "angstrom">>,
          <<"no_reorient">>,
          <<"no_com">>,
          <<"symmetry", "c1">> >>],
     [key |-> "20-1.2", text |->
       << <<"0", "2">>,
          <<"Na", <<-1, 2, 832000000>>, <<1, 0, 0>>, <<1, 0, 0>>>>,
          <<"--">>,
          <<"0", "2">>,
          <<"Li", <<1, 2, 832000000>>, <<1, 0, 0>>, <<1, 0, 0>>>>,
          <<"--">>,
          <<"Gh(H)", <<1, 0, 0>>, <<1, 0, 0>>, <<1, 0, 0>>>>,
          <<>>,
          <<"units", "angstrom">>,
          <<"no_reorient">>,
          <<"no_com">>,
          <<"symmetry", "c1">> >>],
     [key |-> "20-1.5", text |->
       << <<"0", "2">>,
          <<"Na", <<-1, 3, 540000000>>, <<1, 0, 0>>, <<1, 0, 0>>>>,
          <<"--">>,
          <<"0", "2">>,
          <<"Li", <<1, 3, 540000000>>, <<1, 0, 0>>, <<1, 0, 0>>>>,
          <<>>,
          <<"units", "angstrom">>,
          <<"no_reorient">>,
          <<"no_com">>,
          <<"symmetry", "c1">> >>],
     [key |-> "20-2.0", text |->
       << <<"0", "2">>,
          <<"Na", <<-1, 4, 720000000>>, <<1, 0, 0>>, <<1, 0, 0>>>>,
          <<"--">>,
          <<"0", "2">>,
          <<"Li", <<1, 4, 720000000>>, <<1, 0, 0>>, <<1, 0, 0>>>>,
          <<"--">>,
          <<"Gh(H)", <<1, 0, 0>>, <<1, 0, 0>>, <<1, 0, 0>>>>,
          <<>>,
          <<"units", "angstrom">>,
          <<"no_reorient">>,
          <<"no_com">>,
          <<"symmetry", "c1">> >>] >>

\* GEOS_LIT_20 with two digits of the Li coordinate of 20-1.2 transposed.
GEOS_LIT_20_Transposed ==
  << [key |-> "20-0.9", text |->
       << <<"0", "2">>,
          <<"Na", <<-1, 2, 124000000>>, <<1, 0, 0>>, <<1, 0, 0>>>>,
          <<"--">>,
          <<"0", "2">>,
          <<"Li", <<1, 2, 124000000>>, <<1, 0, 0>>, <<1, 0, 0>>>>,
          <<"--">>,
          <<"Gh(H)", <<1, 0, 0>>, <<1, 0, 0>>, <<1, 0, 0>>>>,
          <<>>,
          <<"units", "angstrom">>,
          <<"no_reorient">>,
          <<"no_com">>,
          <<"symmetry", "c1">> >>],
     [key |-> "20-1.0", text |->
       << <<"0", "2">>,
          <<"Na", <<-1, 2, 360000000>>, <<1, 0, 0>>, <<1, 0, 0>>>>,
          <<"--">>,
          <<"0", "2">>,
          <<"Li", <<1, 2, 360000000>>, <<1, 0, 0>>, <<1, 0, 0>>>>,
          <<"--">>,
          <<"Gh(H)", <<1, 0, 0>>, <<1, 0, 0>>, <<1, 0, 0>>>>,
          <<>>,
          <<"units", "angstrom">>,
          <<"no_reorient">>,
          <<"no_com">>,
          <<"symmetry", "c1">> >>],
     [key |-> "20-1.2", text |->
       << <<"0", "2">>,
          <<"Na", <<-1, 2, 832000000>>, <<1, 0, 0>>, <<1, 0, 0>>>>,
          <<"--">>,
          <<"0", "2">>,
          <<"Li", <<1, 2, 823000000>>, <<1, 0, 0>>, <<1, 0, 0>>>>,
          <<"--">>,
          <<"Gh(H)", <<1, 0, 0>>, <<1, 0, 0>>, <<1, 0, 0>>>>,
          <<>>,
          <<"units", "angstrom">>,
          <<"no_reorient">>,
          <<"no_com">>,
          <<"symmetry", "c1">> >>],
     [key |-> "20-1.5", text |->
       << <<"0", "2">>,
          <<"Na", <<-1, 3, 540000000>>, <<1, 0, 0>>, <<1, 0, 0>>>>,
          <<"--">>,
          <<"0", "2">>,
          <<"Li", <<1, 3, 540000000>>, <<1, 0, 0>>, <<1, 0, 0>>>>,
          <<"--">>,
          <<"Gh(H)", <<1, 0, 0>>, <<1, 0, 0>>, <<1, 0, 0>>>>,
          <<>>,
          <<"units", "angstrom">>,
          <<"no_reorient">>,
          <<"no_com">>,
          <<"symmetry", "c1">> >>],
     [key |-> "20-2.0", text |->
       << <<"0", "2">>,
          <<"Na", <<-1, 4, 720000000>>, <<1, 0, 0>>, <<1, 0, 0>>>>,
          <<"--">>,
          <<"0", "2">>,
          <<"Li", <<1, 4, 720000000>>, <<1, 0, 0>>, <<1, 0, 0>>>>,
          <<"--">>,
          <<"Gh(H)", <<1, 0, 0>>, <<1, 0, 0>>, <<1, 0, 0>>>>,
          <<>>,
          <<"units", "angstrom">>,
          <<"no_reorient">>,
          <<"no_com">>,
          <<"symmetry", "c1">> >>] >>

GEOS_LIT_20 ==
  << [key |-> "20-0.9", text |->
       << <<"0", "2">>,
          <<"Na", <<-1, 2, 124000000>>, <<1, 0, 0>>, <<1, 0, 0>>>>,
          <<"--">>,
          <<"0", "2">>,
          <<"Li", <<1, 2, 124000000>>, <<1, 0, 0>>, <<1, 0, 0>>>>,
          <<"--">>,
          <<"Gh(H)", <<1, 0, 0>>, <<1, 0, 0>>, <<1, 0, 0>>>>,
          <<>>,
          <<"units", "angstrom">>,
          <<"no_reorient">>,
          <<"no_com">>,
          <<"symmetry", "c1">> >>],
     [key |-> "20-1.0", text |->
       << <<"0", "2">>,
          <<"Na", <<-1, 2, 360000000>>, <<1, 0, 0>>, <<1, 0, 0>>>>,
          <<"--">>,
          <<"0", "2">>,
          <<"Li", <<1, 2, 360000000>>, <<1, 0, 0>>, <<1, 0, 0>>>>,
          <<"--">>,
          <<"Gh(H)", <<1, 0, 0>>, <<1, 0, 0>>, <<1, 0, 0>>>>,
          <<>>,
          <<"units", "angstrom">>,
          <<"no_reorient">>,
          <<"no_com">>,
          <<"symmetry", "c1">> >>],
     [key |-> "20-1.2", text |->
       << <<"0", "2">>,
          <<"Na", <<-1, 2, 832000000>>, <<1, 0, 0>>, <<1, 0, 0>>>>,
          <<"--">>,
          <<"0", "2">>,
          <<"Li", <<1, 2, 832000000>>, <<1, 0, 0>>, <<1, 0, 0>>>>,
          <<"--">>,
          <<"Gh(H)", <<1, 0, 0>>, <<1, 0, 0>>, <<1, 0, 0>>>>,
          <<>>,
          <<"units", "angstrom">>,
          <<"no_reorient">>,
          <<"no_com">>,
          <<"symmetry", "c1">> >>],
     [key |-> "20-1.5", text |->
       << <<"0", "2">>,
          <<"Na", <<-1, 3, 540000000>>, <<1, 0, 0>>, <<1, 0, 0>>>>,
          <<"--">>,
          <<"0", "2">>,
          <<"Li", <<1, 3, 540000000>>, <<1, 0, 0>>, <<1, 0, 0>>>>,
          <<"--">>,
          <<"Gh(H)", <<1, 0, 0>>, <<1, 0, 0>>, <<1, 0, 0>>>>,
          <<>>,
          <<"units", "angstrom">>,
          <<"no_reorient">>,
          <<"no_com">>,
          <<"symmetry", "c1">> >>],
     [key |-> "20-2.0", text |->
       << <<"0", "2">>,
          <<"Na", <<-1, 4, 720000000>>, <<1, 0, 0>>, <<1, 0, 0>>>>,
          <<"--">>,
          <<"0", "2">>,
          <<"Li", <<1, 4, 720000000>>, <<1, 0, 0>>, <<1, 0, 0>>>>,
          <<"--">>,
          <<"Gh(H)", <<1, 0, 0>>, <<1, 0, 0>>, <<1, 0, 0>>>>,
          <<>>,
          <<"units", "angstrom">>,
          <<"no_reorient">>,
          <<"no_com">>,
          <<"symmetry", "c1">> >>] >>

GEOS_LIT_21 ==
  << [key |-> "21-0.9", text |->
       << <<"0", "1">>,
          <<"C", <<-1, 1, 523106993>>, <<1, 0, 306968024>>, <<1, 0, 0>>>>,
          <<"O", <<-1, 1, 523106993>>, <<1, 1, 466968024>>, <<1, 0, 0>>>>,
          <<"O", <<-1, 1, 523106993>>, <<-1, 0, 853031976>>, <<1, 0, 0>>>>,
          <<"--">>,
          <<"0", "3">>,
          <<"O", <<1, 1, 260813349>>, <<1, 0, 116735356>>, <<1, 0, 0>>>>,
          <<"O", <<1, 1, 785400638>>, <<-1, 0, 730671405>>, <<1, 0, 0>>>>,
          <<"--">>,
          <<"Gh(H)", <<1, 0, 0>>, <<1, 0, 0>>, <<1, 0, 0>>>>,
          <<>>,
          <<"units", "angstrom">>,
          <<"no_reorient">>,
          <<"no_com">>,
          <<"symmetry", "c1">> >>],
     [key |-> "21-1.0", text |->
       << <<"0", "1">>,
          <<"C", <<-1, 1, 692341104>>, <<1, 0, 341075582>>, <<1, 0, 0>>>>,
          <<"O", <<-1, 1, 692341104>>, <<1, 1, 501075582>>, <<1, 0, 0>>>>,
          <<"O", <<-1, 1, 692341104>>, <<-1, 0, 818924418>>, <<1, 0, 0>>>>,
          <<"--">>,
          <<"0", "3">>,
          <<"O", <<1, 1, 430047459>>, <<1, 0, 82627798>>, <<1, 0, 0>>>>,
          <<"O", <<1, 1, 954634748>>, <<-1, 0, 764778963>>, <<1, 0, 0>>>>,
          <<"--">>,
          <<"Gh(H)", <<1, 0, 0>>, <<1, 0, 0>>, <<1, 0, 0>>>>,
          <<>>,
          <<"units", "angstrom">>,
          <<"no_reorient">>,
          <<"no_com">>,
          <<"symmetry", "c1">> >>],
     [key |-> "21-1.2", text |->
       << <<"0", "1">>,
          <<"C", <<-1, 2, 30809325>>, <<1, 0, 409290699>>, <<1, 0, 0>>>>,
          <<"O", <<-1, 2, 30809325>>, <<1, 1, 569290699>>, <<1, 0, 0>>>>,
          <<"O", <<-1, 2, 30809325>>, <<-1, 0, 750709301>>, <<1, 0, 0>>>>,
          <<"--">>,
          <<"0", "3">>,
          <<"O", <<1, 1, 768515680>>, <<1, 0, 14412682>>, <<1, 0, 0>>>>,
          <<"O", <<1, 2, 293102969>>, <<-1, 0, 832994079>>, <<1, 0, 0>>>>,
          <<"--">>,
          <<"Gh(H)", <<1, 0, 0>>, <<1, 0, 0>>, <<1, 0, 0>>>>,
          <<>>,
          <<"units", "angstrom">>,
          <<"no_reorient">>,
          <<"no_com">>,
          <<"symmetry", "c1">> >>],
     [key |-> "21-1.5", text |->
       << <<"0", "1">>,
          <<"C", <<-1, 2, 538511656>>, <<1, 0, 511613373>>, <<1, 0, 0>>>>,
          <<"O", <<-1, 2, 538511656>>, <<1, 1, 671613373>>, <<1, 0, 0>>>>,
          <<"O", <<-1, 2, 538511656>>, <<-1, 0, 648386627>>, <<1, 0, 0>>>>,
          <<"--">>,
          <<"0", "3">>,
          <<"O", <<1, 2, 276218011>>, <<-1, 0, 87909993>>, <<1, 0, 0>>>>,
          <<"O", <<1, 2, 800805300>>, <<-1, 0, 935316754>>, <<1, 0, 0>>>>,
          <<"--">>,
          <<"Gh(H)", <<1, 0, 0>>, <<1, 0, 0>>, <<1, 0, 0>>>>,
          <<>>,
          <<"units", "angstrom">>,
          <<"no_reorient">>,
          <<"no_com">>,
          <<"symmetry", "c1">> >>],
     [key |-> "21-2.0", text |->
       << <<"0", "1">>,
          <<"C", <<-1, 3, 384682208>>, <<1, 0, 682151165>>, <<1, 0, 0>>>>,
          <<"O", <<-1, 3, 384682208>>, <<1, 1, 842151164>>, <<1, 0, 0>>>>,
          <<"O", <<-1, 3, 384682208>>, <<-1, 0, 477848835>>, <<1, 0, 0>>>>,
          <<"--">>,
          <<"0", "3">>,
          <<"O", <<1, 3, 122388563>>, <<-1, 0, 258447784>>, <<1, 0, 0>>>>,
          <<"O", <<1, 3, 646975852>>, <<-1, 1, 105854545>>, <<1, 0, 0>>>>,
          <<"--">>,
          <<"Gh(H)", <<1, 0, 0>>, <<1, 0, 0>>, <<1, 0, 0>>>>,
          <<>>,
          <<"units", "angstrom">>,
          <<"no_reorient">>,
          <<"no_com">>,
          <<"symmetry", "c1">> >>] >>

GEOS_LIT_22 ==
  << [key |-> "22-0.9", text |->
       << <<"0", "2">>,
          <<"C", <<-1, 1, 221104626>>, <<-1, 0, 694508536>>, <<-1, 0, 323156022>>>>,
          <<"C", <<-1, 1, 684033576>>, <<1, 0, 465731104>>, <<1, 0, 78533898>>>>,
          <<"H", <<-1, 1, 480567976>>, <<-1, 1, 736096366>>, <<-1, 0, 211354942>>>>,
          <<"H", <<-1, 2, 573907146>>, <<1, 0, 530613704>>, <<1, 0, 705730008>>>>,
          <<"H", <<-1, 1, 204305196>>, <<1, 1, 400456624>>, <<-1, 0, 192333322>>>>,
          <<"--">>,
          <<"0", "1">>,
          <<"C", <<1, 1, 480747026>>, <<1, 0, 92766498>>, <<1, 0, 96716376>>>>,
          <<"O", <<1, 1, 276359406>>, <<1, 1, 181647978>>, <<-1, 0, 260855354>>>>,
          <<"O", <<1, 1, 699999106>>, <<-1, 0, 991806182>>, <<1, 0, 456111446>>>>,
          <<"--">>,
          <<"Gh(H)", <<1, 0, 0>>, <<1, 0, 0>>, <<1, 0, 0>>>>,
          <<>>,
          <<"units", "angstrom">>,
          <<"no_reorient">>,
          <<"no_com">>,
          <<"symmetry", "c1">> >>],
     [key |-> "22-1.0", text |->
       << <<"0", "2">>,
          <<"C", <<-1, 1, 386232505>>, <<-1, 0, 704989974>>, <<-1, 0, 333975938>>>>,
          <<"C", <<-1, 1, 849161455>>, <<1, 0, 455249666>>, <<1, 0, 67713982>>>>,
          <<"H", <<-1, 1, 645695855>>, <<-1, 1, 746577804>>, <<-1, 0, 222174858>>>>,
          <<"H", <<-1, 2, 739035025>>, <<1, 0, 520132266>>, <<1, 0, 694910092>>>>,
          <<"H", <<-1, 1, 369433075>>, <<1, 1, 389975186>>, <<-1, 0, 203153238>>>>,
          <<"--">>,
          <<"0", "1">>,
          <<"C", <<1, 1, 645874905>>, <<1, 0, 103247936>>, <<1, 0, 107536292>>>>,
          <<"O", <<1, 1, 441487285>>, <<1, 1, 192129416>>, <<-1, 0, 250035438>>>>,
          <<"O", <<1, 1, 865126985>>, <<-1, 0, 981324744>>, <<1, 0, 466931362>>>>,
          <<"--">>,
          <<"Gh(H)", <<1, 0, 0>>, <<1, 0, 0>>, <<1, 0, 0>>>>,
          <<>>,
          <<"units", "angstrom">>,
          <<"no_reorient">>,
          <<"no_com">>,
          <<"symmetry", "c1">> >>],
     [key |-> "22-1.2", text |->
       << <<"0", "2">>,
          <<"C", <<-1, 1, 716488264>>, <<-1, 0, 725952849>>, <<-1, 0, 355615769>>>>,
          <<"C", <<-1, 2, 179417214>>, <<1, 0, 434286791>>, <<1, 0, 46074151>>>>,
          <<"H", <<-1, 1, 975951614>>, <<-1, 1, 767540679>>, <<-1, 0, 243814689>>>>,
          <<"H", <<-1, 3, 69290784>>, <<1, 0, 499169391>>, <<1, 0, 673270261>>>>,
          <<"H", <<-1, 1, 699688834>>, <<1, 1, 369012311>>, <<-1, 0, 224793069>>>>,
          <<"--">>,
          <<"0", "1">>,
          <<"C", <<1, 1, 976130664>>, <<1, 0, 124210811>>, <<1, 0, 129176123>>>>,
          <<"O", <<1, 1, 771743044>>, <<1, 1, 213092291>>, <<-1, 0, 228395607>>>>,
          <<"O", <<1, 2, 195382744>>, <<-1, 0, 960361869>>, <<1, 0, 488571193>>>>,
          <<"--">>,
          <<"Gh(H)", <<1, 0, 0>>, <<1, 0, 0>>, <<1, 0, 0>>>>,
          <<>>,
          <<"units", "angstrom">>,
          <<"no_reorient">>,
          <<"no_com">>,
          <<"symmetry", "c1">> >>],
     [key |-> "22-1.5", text |->
       << <<"0", "2">>,
          <<"C", <<-1, 2, 211871902>>, <<-1, 0, 757397162>>, <<-1, 0, 388075516>>>>,
          <<"C", <<-1, 2, 674800852>>, <<1, 0, 402842478>>, <<1, 0, 13614404>>>>,
          <<"H", <<-1, 2, 471335252>>, <<-1, 1, 798984992>>, <<-1, 0, 276274436>>>>,
          <<"H", <<-1, 3, 564674422>>, <<1, 0, 467725078>>, <<1, 0, 640810514>>>>,
          <<"H", <<-1, 2, 195072472>>, <<1, 1, 337567998>>, <<-1, 0, 257252816>>>>,
          <<"--">>,
          <<"0", "1">>,
          <<"C", <<1, 2, 471514302>>, <<1, 0, 155655124>>, <<1, 0, 161635870>>>>,
          <<"O", <<1, 2, 267126682>>, <<1, 1, 244536604>>, <<-1, 0, 195935860>>>>,
          <<"O", <<1, 2, 690766382>>, <<-1, 0, 928917556>>, <<1, 0, 521030940>>>>,
          <<"--">>,
          <<"Gh(H)", <<1, 0, 0>>, <<1, 0, 0>>, <<1, 0, 0>>>>,
          <<>>,
          <<"units", "angstrom">>,
          <<"no_reorient">>,
          <<"no_com">>,
          <<"symmetry", "c1">> >>],
     [key |-> "22-2.0", text |->
       << <<"0", "2">>,
          <<"C", <<-1, 3, 37511299>>, <<-1, 0, 809804349>>, <<-1, 0, 442175095>>>>,
          <<"C", <<-1, 3, 500440249>>, <<1, 0, 350435291>>, <<-1, 0, 40485175>>>>,
          <<"H", <<-1, 3, 296974649>>, <<-1, 1, 851392179>>, <<-1, 0, 330374015>>>>,
          <<"H", <<-1, 4, 390313819>>, <<1, 0, 415317891>>, <<1, 0, 586710935>>>>,
          <<"H", <<-1, 3, 20711869>>, <<1, 1, 285160811>>, <<-1, 0, 311352395>>>>,
          <<"--">>,
          <<"0", "1">>,
          <<"C", <<1, 3, 297153699>>, <<1, 0, 208062311>>, <<1, 0, 215735449>>>>,
          <<"O", <<1, 3, 92766079>>, <<1, 1, 296943791>>, <<-1, 0, 141836281>>>>,
          <<"O", <<1, 3, 516405779>>, <<-1, 0, 876510369>>, <<1, 0, 575130519>>>>,
          <<"--">>,
          <<"Gh(H)", <<1, 0, 0>>, <<1, 0, 0>>, <<1, 0, 0>>>>,
          <<>>,
          <<"units", "angstrom">>,
          <<"no_reorient">>,
          <<"no_com">>,
          <<"symmetry", "c1">> >>] >>

\* GEOS_LIT_23 with the anchor of 23-2.0 off the origin.
GEOS_LIT_23_MovedAnchor ==
  << [key |-> "23-0.9", text |->
       << <<"0", "3">>,
          <<"He", <<-1, 1, 738350000>>, <<1, 0, 0>>, <<1, 0, 0>>>>,
          <<"--">>,
          <<"0", "3">>,
          <<"He", <<1, 1, 738350000>>, <<1, 0, 0>>, <<1, 0, 0>>>>,
          <<"--">>,
          <<"Gh(H)", <<1, 0, 0>>, <<1, 0, 0>>, <<1, 0, 0>>>>,
          <<>>,
          <<"units", "angstrom">>,
          <<"no_reorient">>,
          <<"no_com">>,
          <<"symmetry", "c1">> >>],
     [key |-> "23-1.0", text |->
       << <<"0", "3">>,
          <<"He", <<-1, 1, 931500000>>, <<1, 0, 0>>, <<1, 0, 0>>>>,
          <<"--">>,
          <<"0", "3">>,
          <<"He", <<1, 1, 931500000>>, <<1, 0, 0>>, <<1, 0, 0>>>>,
          <<"--">>,
          <<"Gh(H)", <<1, 0, 0>>, <<1, 0, 0>>, <<1, 0, 0>>>>,
          <<>>,
          <<"units", "angstrom">>,
          <<"no_reorient">>,
          <<"no_com">>,
          <<"symmetry", "c1">> >>],
     [key |-> "23-1.2", text |->
       << <<"0", "3">>,
          <<"He", <<-1, 2, 317800000>>, <<1, 0, 0>>, <<1, 0, 0>>>>,
          <<"--">>,
          <<"0", "3">>,
          <<"He", <<1, 2, 317800000>>, <<1, 0, 0>>, <<1, 0, 0>>>>,
          <<"--">>,
          <<"Gh(H)", <<1, 0, 0>>, <<1, 0, 0>>, <<1, 0, 0>>>>,
          <<>>,
          <<"units", "angstrom">>,
          <<"no_reorient">>,
          <<"no_com">>,
          <<"symmetry", "c1">> >>],
     [key |-> "23-1.5", text |->
       << <<"0", "3">>,
          <<"He", <<-1, 2, 897250000>>, <<1, 0, 0>>, <<1, 0, 0>>>>,
          <<"--">>,
          <<"0", "3">>,
          <<"He", <<1, 2, 897250000>>, <<1, 0, 0>>, <<1, 0, 0>>>>,
          <<"--">>,
          <<"Gh(H)", <<1, 0, 0>>, <<1, 0, 0>>, <<1, 0, 0>>>>,
          <<>>,
          <<"units", "angstrom">>,
          <<"no_reorient">>,
          <<"no_com">>,
          <<"symmetry", "c1">> >>],
     [key |-> "23-2.0", text |->
       << <<"0", "3">>,
          <<"He", <<-1, 3, 863000000>>, <<1, 0, 0>>, <<1, 0, 0>>>>,
          <<"--">>,
          <<"0", "3">>,
          <<"He", <<1, 3, 863000000>>, <<1, 0, 0>>, <<1, 0, 0>>>>,
          <<"--">>,
          <<"Gh(H)", <<1, 0, 0>>, <<1, 0, 0>>, <<1, 0, 100000000>>>>,
          <<>>,
          <<"units", "angstrom">>,
          <<"no_reorient">>,
          <<"no_com">>,
          <<"symmetry", "c1">> >>] >>

GEOS_LIT_23 ==
  << [key |-> "23-0.9", text |->
       << <<"0", "3">>,
          <<"He", <<-1, 1, 738350000>>, <<1, 0, 0>>, <<1, 0, 0>>>>,
          <<"--">>,
          <<"0", "3">>,
          <<"He", <<1, 1, 738350000>>, <<1, 0, 0>>, <<1, 0, 0>>>>,
          <<"--">>,
          <<"Gh(H)", <<1, 0, 0>>, <<1, 0, 0>>, <<1, 0, 0>>>>,
          <<>>,
          <<"units", "angstrom">>,
          <<"no_reorient">>,
          <<"no_com">>,
          <<"symmetry", "c1">> >>],
     [key |-> "23-1.0", text |->
       << <<"0", "3">>,
          <<"He", <<-1, 1, 931500000>>, <<1, 0, 0>>, <<1, 0, 0>>>>,
          <<"--">>,
          <<"0", "3">>,
          <<"He", <<1, 1, 931500000>>, <<1, 0, 0>>, <<1, 0, 0>>>>,
          <<"--">>,
          <<"Gh(H)", <<1, 0, 0>>, <<1, 0, 0>>, <<1, 0, 0>>>>,
          <<>>,
          <<"units", "angstrom">>,
          <<"no_reorient">>,
          <<"no_com">>,
          <<"symmetry", "c1">> >>],
     [key |-> "23-1.2", text |->
       << <<"0", "3">>,
          <<"He", <<-1, 2, 317800000>>, <<1, 0, 0>>, <<1, 0, 0>>>>,
          <<"--">>,
          <<"0", "3">>,
          <<"He", <<1, 2, 317800000>>, <<1, 0, 0>>, <<1, 0, 0>>>>,
          <<"--">>,
          <<"Gh(H)", <<1, 0, 0>>, <<1, 0, 0>>, <<1, 0, 0>>>>,
          <<>>,
          <<"units", "angstrom">>,
          <<"no_reorient">>,
          <<"no_com">>,
          <<"symmetry", "c1">> >>],
     [key |-> "23-1.5", text |->
       << <<"0", "3">>,
          <<"He", <<-1, 2, 897250000>>, <<1, 0, 0>>, <<1, 0, 0>>>>,
          <<"--">>,
          <<"0", "3">>,
          <<"He", <<1, 2, 897250000>>, <<1, 0, 0>>, <<1, 0, 0>>>>,
          <<"--">>,
          <<"Gh(H)", <<1, 0, 0>>, <<1, 0, 0>>, <<1, 0, 0>>>>,
          <<>>,
          <<"units", "angstrom">>,
          <<"no_reorient">>,
          <<"no_com">>,
          <<"symmetry", "c1">> >>],
     [key |-> "23-2.0", text |->
       << <<"0", "3">>,
          <<"He", <<-1, 3, 863000000>>, <<1, 0, 0>>, <<1, 0, 0>>>>,
          <<"--">>,
          <<"0", "3">>,
          <<"He", <<1, 3, 863000000>>, <<1, 0, 0>>, <<1, 0, 0>>>>,
          <<"--">>,
          <<"Gh(H)", <<1, 0, 0>>, <<1, 0, 0>>, <<1, 0, 0>>>>,
          <<>>,
          <<"units", "angstrom">>,
          <<"no_reorient">>,
          <<"no_com">>,
          <<"symmetry", "c1">> >>] >>

\* GEOS_LIT_24 with the symmetry directive of 24-2.0 left out.
GEOS_LIT_24_NoSymmetry ==
  << [key |-> "24-0.9", text |->
       << <<"1", "2">>,
          <<"C", <<1, 0, 0>>, <<-1, 0, 436434806>>, <<1, 0, 497570949>>>>,
          <<"O", <<1, 0, 0>>, <<1, 0, 196238679>>, <<1, 1, 420138459>>>>,
          <<"--">>,
          <<"0", "1">>,
          <<"F", <<1, 0, 0>>, <<1, 0, 109938945>>, <<-1, 0, 992070159>>>>,
          <<"H", <<1, 0, 0>>, <<-1, 0, 582542676>>, <<-1, 1, 636605903>>>>,
          <<"--">>,
          <<"Gh(H)", <<1, 0, 0>>, <<1, 0, 0>>, <<1, 0, 0>>>>,
          <<>>,
          <<"units", "angstrom">>,
          <<"no_reorient">>,
          <<"no_com">>,
          <<"symmetry", "c1">> >>],
     [key |-> "24-1.0", text |->
       << <<"1", "2">>,
          <<"C", <<1, 0, 0>>, <<-1, 0, 444773807>>, <<1, 0, 611409007>>>>,
          <<"O", <<1, 0, 0>>, <<1, 0, 187899678>>, <<1, 1, 533976518>>>>,
          <<"--">>,
          <<"0", "1">>,
          <<"F", <<1, 0, 0>>, <<1, 0, 118277946>>, <<-1, 1, 105908217>>>>,
          <<"H", <<1, 0, 0>>, <<-1, 0, 574203674>>, <<-1, 1, 750443962>>>>,
          <<"--">>,
          <<"Gh(H)", <<1, 0, 0>>, <<1, 0, 0>>, <<1, 0, 0>>>>,
          <<>>,
          <<"units", "angstrom">>,
          <<"no_reorient">>,
          <<"no_com">>,
          <<"symmetry", "c1">> >>],
     [key |-> "24-1.2", text |->
       << <<"1", "2">>,
          <<"C", <<1, 0, 0>>, <<-1, 0, 461451810>>, <<1, 0, 839085125>>>>,
          <<"O", <<1, 0, 0>>, <<1, 0, 171221675>>, <<1, 1, 761652635>>>>,
          <<"--">>,
          <<"0", "1">>,
          <<"F", <<1, 0, 0>>, <<1, 0, 134955949>>, <<-1, 1, 333584335>>>>,
          <<"H", <<1, 0, 0>>, <<-1, 0, 557525671>>, <<-1, 1, 978120079>>>>,
          <<"--">>,
          <<"Gh(H)", <<1, 0, 0>>, <<1, 0, 0>>, <<1, 0, 0>>>>,
          <<>>,
          <<"units", "angstrom">>,
          <<"no_reorient">>,
          <<"no_com">>,
          <<"symmetry", "c1">> >>],
     [key |-> "24-1.5", text |->
       << <<"1", "2">>,
          <<"C", <<1, 0, 0>>, <<-1, 0, 486468814>>, <<1, 1, 180599300>>>>,
          <<"O", <<1, 0, 0>>, <<1, 0, 146204671>>, <<1, 2, 103166811>>>>,
          <<"--">>,
          <<"0", "1">>,
          <<"F", <<1, 0, 0>>, <<1, 0, 159972954>>, <<-1, 1, 675098511>>>>,
          <<"H", <<1, 0, 0>>, <<-1, 0, 532508667>>, <<-1, 2, 319634255>>>>,
          <<"--">>,
          <<"Gh(H)", <<1, 0, 0>>, <<1, 0, 0>>, <<1, 0, 0>>>>,
          <<>>,
          <<"units", "angstrom">>,
          <<"no_reorient">>,
          <<"no_com">>,
          <<"symmetry", "c1">> >>],
     [key |-> "24-2.0", text |->
       << <<"1", "2">>,
          <<"C", <<1, 0, 0>>, <<-1, 0, 528163822>>, <<1, 1, 749789594>>>>,
          <<"O", <<1, 0, 0>>, <<1, 0, 104509663>>, <<1, 2, 672357104>>>>,
          <<"--">>,
          <<"0", "1">>,
          <<"F", <<1, 0, 0>>, <<1, 0, 201667961>>, <<-1, 2, 244288804>>>>,
          <<"H", <<1, 0, 0>>, <<-1, 0, 490813659>>, <<-1, 2, 888824548>>>>,
          <<"--">>,
          <<"Gh(H)", <<1, 0, 0>>, <<1, 0, 0>>, <<1, 0, 0>>>>,
          <<>>,
          <<"units", "angstrom">>,
          <<"no_reorient">>,
          <<"no_com">> >>] >>

GEOS_LIT_24 ==
  << [key |-> "24-0.9", text |->
       << <<"1", "2">>,
          <<"C", <<1, 0, 0>>, <<-1, 0, 436434806>>, <<1, 0, 497570949>>>>,
          <<"O", <<1, 0, 0>>, <<1, 0, 196238679>>, <<1, 1, 420138459>>>>,
          <<"--">>,
          <<"0", "1">>,
          <<"F", <<1, 0, 0>>, <<1, 0, 109938945>>, <<-1, 0, 992070159>>>>,
          <<"H", <<1, 0, 0>>, <<-1, 0, 582542676>>, <<-1, 1, 636605903>>>>,
          <<"--">>,
          <<"Gh(H)", <<1, 0, 0>>, <<1, 0, 0>>, <<1, 0, 0>>>>,
          <<>>,
          <<"units", "angstrom">>,
          <<"no_reorient">>,
          <<"no_com">>,
          <<"symmetry", "c1">> >>],
     [key |-> "24-1.0", text |->
       << <<"1", "2">>,
          <<"C", <<1, 0, 0>>, <<-1, 0, 444773807>>, <<1, 0, 611409007>>>>,
          <<"O", <<1, 0, 0>>, <<1, 0, 187899678>>, <<1, 1, 533976518>>>>,
          <<"--">>,
          <<"0", "1">>,
          <<"F", <<1, 0, 0>>, <<1, 0, 118277946>>, <<-1, 1, 105908217>>>>,
          <<"H", <<1, 0, 0>>, <<-1, 0, 574203674>>, <<-1, 1, 750443962>>>>,
          <<"--">>,
          <<"Gh(H)", <<1, 0, 0>>, <<1, 0, 0>>, <<1, 0, 0>>>>,
          <<>>,
          <<"units", "angstrom">>,
          <<"no_reorient">>,
          <<"no_com">>,
          <<"symmetry", "c1">> >>],
     [key |-> "24-1.2", text |->
       << <<"1", "2">>,
          <<"C", <<1, 0, 0>>, <<-1, 0, 461451810>>, <<1, 0, 839085125>>>>,
          <<"O", <<1, 0, 0>>, <<1, 0, 171221675>>, <<1, 1, 761652635>>>>,
          <<"--">>,
          <<"0", "1">>,
          <<"F", <<1, 0, 0>>, <<1, 0, 134955949>>, <<-1, 1, 333584335>>>>,
          <<"H", <<1, 0, 0>>, <<-1, 0, 557525671>>, <<-1, 1, 978120079>>>>,
          <<"--">>,
          <<"Gh(H)", <<1, 0, 0>>, <<1, 0, 0>>, <<1, 0, 0>>>>,
          <<>>,
          <<"units", "angstrom">>,
          <<"no_reorient">>,
          <<"no_com">>,
          <<"symmetry", "c1">> >>],
     [key |-> "24-1.5", text |->
       << <<"1", "2">>,
          <<"C", <<1, 0, 0>>, <<-1, 0, 486468814>>, <<1, 1, 180599300>>>>,
          <<"O", <<1, 0, 0>>, <<1, 0, 146204671>>, <<1, 2, 103166811>>>>,
          <<"--">>,
          <<"0", "1">>,
          <<"F", <<1, 0, 0>>, <<1, 0, 159972954>>, <<-1, 1, 675098511>>>>,
          <<"H", <<1, 0, 0>>, <<-1, 0, 532508667>>, <<-1, 2, 319634255>>>>,
          <<"--">>,
          <<"Gh(H)", <<1, 0, 0>>, <<1, 0, 0>>, <<1, 0, 0>>>>,
          <<>>,
          <<"units", "angstrom">>,
          <<"no_reorient">>,
          <<"no_com">>,
          <<"symmetry", "c1">> >>],
     [key |-> "24-2.0", text |->
       << <<"1", "2">>,
          <<"C", <<1, 0, 0>>, <<-1, 0, 528163822>>, <<1, 1, 749789594>>>>,
          <<"O", <<1, 0, 0>>, <<1, 0, 104509663>>, <<1, 2, 672357104>>>>,
          <<"--">>,
          <<"0", "1">>,
          <<"F", <<1, 0, 0>>, <<1, 0, 201667961>>, <<-1, 2, 244288804>>>>,
          <<"H", <<1, 0, 0>>, <<-1, 0, 490813659>>, <<-1, 2, 888824548>>>>,
          <<"--">>,
          <<"Gh(H)", <<1, 0, 0>>, <<1, 0, 0>>, <<1, 0, 0>>>>,
          <<>>,
          <<"units", "angstrom">>,
          <<"no_reorient">>,
          <<"no_com">>,
          <<"symmetry", "c1">> >>] >>

GEOS_LIT ==
  GEOS_LIT_1 \o GEOS_LIT_2 \o GEOS_LIT_3 \o GEOS_LIT_4 \o GEOS_LIT_5 \o GEOS_LIT_6 \o GEOS_LIT_7 \o GEOS_LIT_8 \o GEOS_LIT_9
  \o GEOS_LIT_10 \o GEOS_LIT_11 \o GEOS_LIT_12 \o GEOS_LIT_13 \o GEOS_LIT_14 \o GEOS_LIT_15 \o GEOS_LIT_16 \o GEOS_LIT_17
  \o GEOS_LIT_18 \o GEOS_LIT_19 \o GEOS_LIT_20 \o GEOS_LIT_21 \o GEOS_LIT_22 \o GEOS_LIT_23 \o GEOS_LIT_24

----------------------------------------------------------------------------
(* qcdb.Molecule: construction from a text block, and fragment extraction *)

Elements == {"H", "He", "Li", "C", "N", "O", "F", "Na", "Ar"}

\* int(token) for the charge and multiplicity tokens
IntTok == [t \in {str(n) : n \in 0..9} |-> CHOOSE n \in 0..9 : str(n) = t]

IsBlank(l) == Len(l) = 0

IsSep(l) == Len(l) = 1 /\ l[1] = "--"

IsAtom(l) == Len(l) = 4

IsChgMult(l) == Len(l) = 2 /\ l[1] \in DOMAIN IntTok /\ l[2] \in DOMAIN IntTok

IsDirective(l) == ~IsBlank(l) /\ ~IsSep(l) /\ ~IsAtom(l) /\ ~IsChgMult(l)

\* The positions of the "--" lines of a text, ascending.
SepPos(text) ==
  LET seps == {k \in 1..Len(text) : IsSep(text[k])}
  IN  [j \in 1..Cardinality(seps) |->
         CHOOSE k \in seps : Cardinality({s \in seps : s < k}) = j - 1]

\* The lines of the j-th fragment of a text: those between two "--" lines.
Chunk(text, j) ==
  LET sp == SepPos(text)
      lo == IF j = 1 THEN 1 ELSE sp[j - 1] + 1
      hi == IF j = Len(sp) + 1 THEN Len(text) ELSE sp[j] - 1
  IN  SubSeq(text, lo, hi)

\* An atom line: the label is an element symbol or Gh(symbol), a ghost center.
Atom(l) ==
  IF \E e \in Elements : l[1] = "Gh(" \o e \o ")"
    THEN [sym |-> CHOOSE e \in Elements : l[1] = "Gh(" \o e \o ")",
          ghost |-> TRUE, xyz |-> <<l[2], l[3], l[4]>>]
    ELSE [sym |-> l[1], ghost |-> FALSE, xyz |-> <<l[2], l[3], l[4]>>]

\* A fragment: its declared charge and multiplicity (declared FALSE and 0, 0
\* when the fragment has no such line) and its atoms in text order.
Fragment(chunk) ==
  LET cm    == SelectSeq(chunk, IsChgMult)
      atoms == SelectSeq(chunk, IsAtom)
  IN  [declared |-> Len(cm) > 0,
       charge   |-> IF Len(cm) > 0 THEN IntTok[cm[1][1]] ELSE 0,
       mult     |-> IF Len(cm) > 0 THEN IntTok[cm[1][2]] ELSE 0,
       type     |-> "Real",
       atoms    |-> [k \in 1..Len(atoms) |-> Atom(atoms[k])]]

\* qcdb.Molecule(text)
Molecule(text) ==
  [frags      |-> [j \in 1..(Len(SepPos(text)) + 1) |-> Fragment(Chunk(text, j))],
   directives |-> SelectSeq(text, IsDirective)]

\* A fragment with every atom turned into a ghost center, in place.
Ghosted(frag) ==
  [frag EXCEPT !.type = "Ghost",
               !.atoms = [k \in DOMAIN frag.atoms |->
                            [frag.atoms[k] EXCEPT !.ghost = TRUE]]]

\* mol.extract_fragments(reals, ghosts): a new molecule with the fragments of
\* reals as they are, those of ghosts as ghosts, and the other ones absent;
\* fragments are numbered from 1 and no coordinate changes.
ExtractFragments(mol, reals, ghosts) ==
  [mol EXCEPT !.frags =
     [f \in DOMAIN mol.frags |->
        IF f \in reals THEN mol.frags[f]
        ELSE IF f \in ghosts THEN Ghosted(mol.frags[f])
        ELSE [mol.frags[f] EXCEPT !.type = "Absent", !.atoms = <<>>]]]

----------------------------------------------------------------------------
(* The statements of the module, in source order *)

\* The contribution map of one reaction, with the monoA identifier written
\* twice (the second item overwrites the first).
RxnmEntry_DupKey(rxn) ==
  DictLit(<< <<Fmt("-dimer", dbse, rxn), 1>>,
             <<Fmt("-monoA-CP", dbse, rxn), -1>>,
             <<Fmt("-monoA-CP", dbse, rxn), -1>> >>)

RxnmEntry(rxn) ==
  DictLit(<< <<Fmt("-dimer", dbse, rxn), 1>>,
             <<Fmt("-monoA-CP", dbse, rxn), -1>>,
             <<Fmt("-monoB-CP", dbse, rxn), -1>> >>)

\* The active list with the two monomers in the other order.
ActvEntry_Swapped(rxn) ==
  <<Fmt("-dimer", dbse, rxn), Fmt("-monoB-CP", dbse, rxn), Fmt("-monoA-CP", dbse, rxn)>>

ActvEntry(rxn) ==
  <<Fmt("-dimer", dbse, rxn), Fmt("-monoA-CP", dbse, rxn), Fmt("-monoB-CP", dbse, rxn)>>

\* The dimer-only list naming an identifier that has no geometry and no tag.
ActvSaEntry_NoSuchId(rxn) == <<Fmt("-monoA-unCP", dbse, rxn)>>

ActvSaEntry(rxn) == <<Fmt("-dimer", dbse, rxn)>>

\* The value the rescaling loop stores, dividing twice.
Rescaled_Twice(value) == Div(Div(value, KCALMOL2WAVENUMBERS), KCALMOL2WAVENUMBERS)

Rescaled(value) == Div(value, KCALMOL2WAVENUMBERS)

\* The monoB geometry taken with the arguments of monoA.
MonoB_AsMonoA(dimer) == ExtractFragments(dimer, {1}, {2, 3})

\* The monoA geometry taken without the list of ghost fragments.
MonoA_NoGhosts(dimer) == ExtractFragments(dimer, {1}, {})

MonoA(dimer) == ExtractFragments(dimer, {1}, {2, 3})

\* The monoB geometry with the partner fragment left out of the ghost list.
MonoB_Filter(dimer) == ExtractFragments(dimer, {2}, {3})

MonoB(dimer) == ExtractFragments(dimer, {2}, {1, 3})

\* A call that returns a new Molecule instance, which GEOS[key] is bound to.
Alloc(h, key) ==
  [count |-> h.count + 1,
   at    |-> [x \in DOMAIN h.at \cup {key} |-> IF x = key THEN h.count + 1 ELSE h.at[x]]]

Init ==
  /\ pc = "members"
  /\ i = 0
  /\ iter = [pos |-> 0, size |-> 0]
  /\ err = ""
  /\ HRXN = <<>> /\ HRXN_DD = <<>> /\ HRXN_ED = <<>> /\ HRXN_MX = <<>>
  /\ RXNM = EmptyDict /\ ACTV = EmptyDict /\ ACTV_CP = EmptyDict /\ ACTV_SA = EmptyDict
  /\ BIND = EmptyDict /\ TAGL = EmptyDict /\ GEOS = EmptyDict
  /\ heap = [count |-> 0, at |-> [k \in {} |-> 0]]

\* DIST, HRXN and the three subsets; the four empty maps.
DatabaseMembers ==
  /\ pc = "members"
  /\ HRXN' = MemberList(range(1, 25))
  /\ HRXN_DD' = MemberList(RXNS_DD)
  /\ HRXN_ED' = MemberList(RXNS_ED)
  /\ HRXN_MX' = MemberList(RXNS_MX)
  /\ RXNM' = EmptyDict /\ ACTV' = EmptyDict /\ ACTV_CP' = EmptyDict /\ ACTV_SA' = EmptyDict
  /\ pc' = "systems"
  /\ i' = 0
  /\ UNCHANGED <<iter, err, BIND, TAGL, GEOS, heap>>

\* for rxn in HRXN: one iteration, or the end of the loop and BIND = {}.
ChemicalSystems ==
  /\ pc = "systems"
  /\ IF i < Len(HRXN)
       THEN LET rxn == HRXN[i + 1]
                key == Fmt("", dbse, rxn)
            IN  /\ RXNM' = SetItem(RXNM, key, RxnmEntry(rxn))
                /\ ACTV' = SetItem(ACTV, key, ActvEntry(rxn))
                /\ ACTV_SA' = SetItem(ACTV_SA, key, ActvSaEntry(rxn))
                /\ ACTV_CP' = SetItem(ACTV_CP, key, ActvEntry(rxn))
                /\ i' = i + 1
                /\ UNCHANGED <<pc, BIND>>
       ELSE /\ BIND' = EmptyDict
            /\ pc' = "bind"
            /\ i' = 0
            /\ UNCHANGED <<RXNM, ACTV, ACTV_SA, ACTV_CP>>
  /\ UNCHANGED <<iter, err, HRXN, HRXN_DD, HRXN_ED, HRXN_MX, TAGL, GEOS, heap>>

\* ReferenceValues with the rescaling loop started before the last literal
\* assignment, which is then never made.
ReferenceValues_EarlyLoop ==
  /\ pc = "bind"
  /\ IF i < Len(BIND_LIT) - 1
       THEN /\ BIND' = SetItem(BIND, Fmt("", dbse, BIND_LIT[i + 1][1]),
                               Num(BIND_LIT[i + 1][2]))
            /\ i' = i + 1
            /\ UNCHANGED <<pc, iter>>
       ELSE /\ iter' = [pos |-> 0, size |-> Len(BIND.order)]
            /\ pc' = "rescale"
            /\ i' = 0
            /\ UNCHANGED BIND
  /\ UNCHANGED <<err, HRXN, HRXN_DD, HRXN_ED, HRXN_MX, RXNM, ACTV, ACTV_CP, ACTV_SA,
                 TAGL, GEOS, heap>>

\* One literal assignment into BIND, or, after the last one, the constant and
\* the start of the loop over BIND.items().
ReferenceValues ==
  /\ pc = "bind"
  /\ IF i < Len(BIND_LIT)
       THEN /\ BIND' = SetItem(BIND, Fmt("", dbse, BIND_LIT[i + 1][1]),
                               Num(BIND_LIT[i + 1][2]))
            /\ i' = i + 1
            /\ UNCHANGED <<pc, iter>>
       ELSE /\ iter' = [pos |-> 0, size |-> Len(BIND.order)]
            /\ pc' = "rescale"
            /\ i' = 0
            /\ UNCHANGED BIND
  /\ UNCHANGED <<err, HRXN, HRXN_DD, HRXN_ED, HRXN_MX, RXNM, ACTV, ACTV_CP, ACTV_SA,
                 TAGL, GEOS, heap>>

\* for key, value in BIND.items(): BIND[key] = value / KCALMOL2WAVENUMBERS.
\* The iterator raises RuntimeError when the dict changed size, yields the
\* item at its position, or is exhausted (then TAGL = {}).
ScaleBack ==
  /\ pc = "rescale"
  /\ IF Len(BIND.order) # iter.size
       THEN /\ err' = "RuntimeError"
            /\ pc' = "error"
            /\ UNCHANGED <<i, iter, BIND, TAGL>>
       ELSE IF iter.pos < Len(BIND.order)
         THEN LET key   == BIND.order[iter.pos + 1]
                  value == BIND.val[key]
              IN  /\ BIND' = SetItem(BIND, key, Rescaled(value))
                  /\ iter' = [iter EXCEPT !.pos = @ + 1]
                  /\ i' = i + 1
                  /\ UNCHANGED <<pc, err, TAGL>>
         ELSE /\ TAGL' = EmptyDict
              /\ pc' = "tagl"
              /\ i' = 0
              /\ UNCHANGED <<iter, err, BIND>>
  /\ UNCHANGED <<HRXN, HRXN_DD, HRXN_ED, HRXN_MX, RXNM, ACTV, ACTV_CP, ACTV_SA, GEOS,
                 heap>>

\* One literal assignment into TAGL, or, after the last one, GEOS = {}.
CommentLines ==
  /\ pc = "tagl"
  /\ IF i < Len(TAGL_LIT)
       THEN /\ TAGL' = SetItem(TAGL, Fmt(TAGL_LIT[i + 1][1], dbse, TAGL_LIT[i + 1][2]),
                               TAGL_LIT[i + 1][3])
            /\ i' = i + 1
            /\ UNCHANGED <<pc, GEOS>>
       ELSE /\ GEOS' = EmptyDict
            /\ pc' = "geos"
            /\ i' = 0
            /\ UNCHANGED TAGL
  /\ UNCHANGED <<iter, err, HRXN, HRXN_DD, HRXN_ED, HRXN_MX, RXNM, ACTV, ACTV_CP,
                 ACTV_SA, BIND, heap>>

\* One dimer assignment into GEOS, or, after the last one, the start of the
\* derivation loop.
GeometrySpec ==
  /\ pc = "geos"
  /\ IF i < Len(GEOS_LIT)
       THEN /\ GEOS' = SetItem(GEOS, Fmt("-dimer", dbse, GEOS_LIT[i + 1].key),
                               Molecule(GEOS_LIT[i + 1].text))
            /\ heap' = Alloc(heap, Fmt("-dimer", dbse, GEOS_LIT[i + 1].key))
            /\ i' = i + 1
            /\ UNCHANGED pc
       ELSE /\ pc' = "derive"
            /\ i' = 0
            /\ UNCHANGED <<GEOS, heap>>
  /\ UNCHANGED <<iter, err, HRXN, HRXN_DD, HRXN_ED, HRXN_MX, RXNM, ACTV, ACTV_CP,
                 ACTV_SA, BIND, TAGL>>

\* DerivedGeometry with monoB-CP extracted from the monoA-CP entry just stored
\* instead of from the dimer.
DerivedGeometry_FromMonoA ==
  /\ pc = "derive"
  /\ IF i < Len(HRXN)
       THEN LET rxn   == HRXN[i + 1]
                dimer == Fmt("-dimer", dbse, rxn)
            IN  IF dimer \notin Keys(GEOS)
                  THEN /\ err' = "KeyError"
                       /\ pc' = "error"
                       /\ UNCHANGED <<i, GEOS, heap>>
                  ELSE LET withA == SetItem(GEOS, Fmt("-monoA-CP", dbse, rxn),
                                            MonoA(GEOS.val[dimer]))
                       IN  /\ GEOS' = SetItem(withA, Fmt("-monoB-CP", dbse, rxn),
                                              MonoB(withA.val[Fmt("-monoA-CP", dbse, rxn)]))
                           /\ heap' = Alloc(Alloc(heap, Fmt("-monoA-CP", dbse, rxn)),
                                            Fmt("-monoB-CP", dbse, rxn))
                           /\ i' = i + 1
                           /\ UNCHANGED <<pc, err>>
       ELSE /\ pc' = "done"
            /\ UNCHANGED <<i, err, GEOS, heap>>
  /\ UNCHANGED <<iter, HRXN, HRXN_DD, HRXN_ED, HRXN_MX, RXNM, ACTV, ACTV_CP,
                 ACTV_SA, BIND, TAGL>>

\* for rxn in HRXN: the two monomer assignments of one reaction (each reads
\* GEOS[dimer], a KeyError when it is missing), or the end of the load.
DerivedGeometry ==
  /\ pc = "derive"
  /\ IF i < Len(HRXN)
       THEN LET rxn   == HRXN[i + 1]
                dimer == Fmt("-dimer", dbse, rxn)
            IN  IF dimer \notin Keys(GEOS)
                  THEN /\ err' = "KeyError"
                       /\ pc' = "error"
                       /\ UNCHANGED <<i, GEOS, heap>>
                  ELSE LET withA == SetItem(GEOS, Fmt("-monoA-CP", dbse, rxn),
                                            MonoA(GEOS.val[dimer]))
                       IN  /\ GEOS' = SetItem(withA, Fmt("-monoB-CP", dbse, rxn),
                                              MonoB(withA.val[dimer]))
                           /\ heap' = Alloc(Alloc(heap, Fmt("-monoA-CP", dbse, rxn)),
                                            Fmt("-monoB-CP", dbse, rxn))
                           /\ i' = i + 1
                           /\ UNCHANGED <<pc, err>>
       ELSE /\ pc' = "done"
            /\ UNCHANGED <<i, err, GEOS, heap>>
  /\ UNCHANGED <<iter, HRXN, HRXN_DD, HRXN_ED, HRXN_MX, RXNM, ACTV, ACTV_CP,
                 ACTV_SA, BIND, TAGL>>

Next ==
  \/ DatabaseMembers
  \/ ChemicalSystems
  \/ ReferenceValues
  \/ ScaleBack
  \/ CommentLines
  \/ GeometrySpec
  \/ DerivedGeometry

Spec == Init /\ [][Next]_vars

----------------------------------------------------------------------------
(* Claims *)

Members == pc # "members"

\* The reaction keys of the maps: "O24by5mb-" followed by a member of HRXN.
RxnKeys == {"O24by5mb-" \o rxn : rxn \in Range(HRXN)}

\* C1: once the member lists are assigned, HRXN_DD, HRXN_ED and HRXN_MX
\* partition HRXN: each of the 120 keys of HRXN is in exactly one of the three
\* lists, no list repeats a key, and the union of the three is the set of
\* HRXN's keys.
C1_SubsetsPartition ==
  Members =>
    LET subsets == <<Range(HRXN_DD), Range(HRXN_ED), Range(HRXN_MX)>>
        keys    == Range(HRXN)
    IN  /\ Cardinality(keys) = 120
        /\ \A k \in keys : Cardinality({s \in 1..3 : k \in subsets[s]}) = 1
        /\ NoDup(HRXN_DD) /\ NoDup(HRXN_ED) /\ NoDup(HRXN_MX)
        /\ subsets[1] \cup subsets[2] \cup subsets[3] = keys

C1_Witness ==
  /\ pc = "systems"
  /\ Len(HRXN) = 120
  /\ Len(HRXN_DD) = 45 /\ Len(HRXN_ED) = 30 /\ Len(HRXN_MX) = 45

\* C2: every reaction key of RXNM maps to exactly three entries: its -dimer
\* identifier with +1, its -monoA-CP and -monoB-CP identifiers with -1 each;
\* after the loop RXNM has the 120 reaction keys.
C2_ContributionMap ==
  /\ pc \notin {"members", "systems"} => Keys(RXNM) = RxnKeys
  /\ \A key \in Keys(RXNM) :
       LET m == RXNM.val[key]
       IN  /\ Keys(m) = {key \o "-dimer", key \o "-monoA-CP", key \o "-monoB-CP"}
           /\ Cardinality(Keys(m)) = 3
           /\ Len(m.order) = 3
           /\ m.val[key \o "-dimer"] = 1
           /\ m.val[key \o "-monoA-CP"] = -1
           /\ m.val[key \o "-monoB-CP"] = -1

C2_Witness ==
  /\ pc = "bind" /\ i = 0
  /\ Keys(RXNM) = RxnKeys
  /\ Cardinality(Keys(RXNM)) = 120

\* C5: HRXN is the cross product of the reaction indices 1..24 and the five
\* labels of DIST, index-major and label-minor: 120 pairwise distinct strings,
\* no two (index, label) pairs giving the same key.
C5_CrossProduct ==
  Members =>
    /\ Len(HRXN) = 120
    /\ NoDup(HRXN)
    /\ \A r \in 1..24 : \A d \in 1..5 : HRXN[(r - 1) * 5 + d] = str(r) \o DIST[d]
    /\ Cardinality({str(p[1]) \o DIST[p[2]] : p \in (1..24) \X (1..5)}) = 24 * 5
    /\ HRXN[1] = "1-0.9" /\ HRXN[2] = "1-1.0" /\ HRXN[6] = "2-0.9"
    /\ HRXN[50] = "10-2.0" /\ HRXN[120] = "24-2.0"

C5_Witness ==
  /\ pc = "systems"
  /\ Len(HRXN) = 120
  /\ HRXN[51] = "11-0.9"

BindAssigned == pc \in {"rescale", "tagl", "geos", "derive", "done"}

Rescaled120 == pc \in {"tagl", "geos", "derive", "done"}

\* BIND holds the 120 keys of the literal table in source order, the first n
\* of them divided once by 349.7551 and the other ones as written.
BindScaledUpTo(n) ==
  /\ Len(BIND.order) = 120
  /\ Keys(BIND) = Range(BIND.order)
  /\ Cardinality(Keys(BIND)) = 120
  /\ \A k \in 1..120 :
       /\ BIND.order[k] = "O24by5mb-" \o BIND_LIT[k][1]
       /\ BIND.val[BIND.order[k]] =
            [centi |-> BIND_LIT[k][2], divs |-> IF k <= n THEN <<3497551>> ELSE <<>>]

\* C3: the rescaling loop visits each of the 120 entries of BIND exactly once
\* and ends without an exception: after j iterations the first j entries are
\* their literals divided once by 349.7551 and the other ones are untouched,
\* the loop makes 120 iterations, and afterwards every entry is its literal
\* divided exactly once; the loop adds and removes no entry.
C3_RescaledOnce ==
  /\ pc # "error" /\ err = ""
  /\ pc = "rescale" => (iter.pos = i /\ i <= 120 /\ iter.size = 120 /\ BindScaledUpTo(i))
  /\ Rescaled120 => (iter.pos = 120 /\ BindScaledUpTo(120))

C3_Witness ==
  /\ pc = "tagl" /\ i = 0
  /\ iter.pos = 120
  /\ BIND.val["O24by5mb-1-0.9"] = [centi |-> 426, divs |-> <<3497551>>]

\* C4 as stated: after the load the reference energy of "O24by5mb-24-0.9" is
\* -8922.76 / 349.7551, and that quotient rounded to four decimals is -25.5064.
C4_Original ==
  Rescaled120 =>
    /\ BIND.val["O24by5mb-24-0.9"] = [centi |-> -892276, divs |-> <<3497551>>]
    /\ Round(BIND.val["O24by5mb-24-0.9"], 4) = -255064

\* C4, amended: after the load the reference energy of "O24by5mb-24-0.9" is
\* -8922.76 / 349.7551, and that quotient rounded to four decimals is -25.5115.
C4_ReferenceEnergy ==
  Rescaled120 =>
    /\ BIND.val["O24by5mb-24-0.9"] = [centi |-> -892276, divs |-> <<3497551>>]
    /\ Round(BIND.val["O24by5mb-24-0.9"], 4) = -255115

C4_Witness ==
  /\ pc = "tagl" /\ i = 0
  /\ "O24by5mb-24-0.9" \in Keys(BIND)
  /\ Len(BIND.val["O24by5mb-24-0.9"].divs) = 1

\* C6: once the literal table is assigned, the keys of BIND are exactly the
\* 120 reaction keys "O24by5mb-" + rxn, rxn in HRXN, which are also the keys of
\* RXNM, ACTV, ACTV_CP and ACTV_SA.
C6_BindKeys ==
  BindAssigned =>
    /\ Keys(BIND) = RxnKeys
    /\ Cardinality(Keys(BIND)) = 120
    /\ Keys(RXNM) = Keys(BIND) /\ Keys(ACTV) = Keys(BIND)
    /\ Keys(ACTV_CP) = Keys(BIND) /\ Keys(ACTV_SA) = Keys(BIND)

C6_Witness ==
  /\ pc = "rescale" /\ i = 0
  /\ Len(BIND.order) = 120
  /\ "O24by5mb-13-1.2" \in Keys(BIND)

----------------------------------------------------------------------------
DimersAssigned == pc \in {"derive", "done"}

DimerKey(rxn) == "O24by5mb-" \o rxn \o "-dimer"

\* A coordinate token <<sign, units, 10^-9 units>> of value zero.
IsZero(c) == c[2] = 0 /\ c[3] = 0

AllReal(frag) == \A j \in DOMAIN frag.atoms : ~frag.atoms[j].ghost

AllGhost(frag) == \A j \in DOMAIN frag.atoms : frag.atoms[j].ghost

\* C7: once the dimer literals are assigned, GEOS holds a -dimer geometry for
\* each of the 120 reaction keys, and each has exactly three fragments in this
\* order: two real fragments, each with a declared charge and multiplicity and
\* at least one atom, then a ghost anchor fragment.
C7_DimerFragments ==
  DimersAssigned =>
    \A rxn \in Range(HRXN) :
      /\ DimerKey(rxn) \in Keys(GEOS)
      /\ LET m == GEOS.val[DimerKey(rxn)]
         IN  /\ Len(m.frags) = 3
             /\ \A f \in 1..2 :
                  /\ m.frags[f].declared
                  /\ Len(m.frags[f].atoms) >= 1
                  /\ AllReal(m.frags[f])
             /\ Len(m.frags[3].atoms) >= 1
             /\ AllGhost(m.frags[3])

C7_Witness ==
  /\ pc = "derive" /\ i = 0
  /\ Cardinality(Keys(GEOS)) = 120
  /\ Len(GEOS.val["O24by5mb-3-1.2-dimer"].frags[2].atoms) = 6

\* C9: in each of the 120 dimer geometries the last fragment is one ghost
\* hydrogen center at the origin, and the dimer has no other ghost center.
C9_Anchor ==
  /\ DimersAssigned => \A rxn \in Range(HRXN) : DimerKey(rxn) \in Keys(GEOS)
  /\ \A rxn \in Range(HRXN) :
       DimerKey(rxn) \in Keys(GEOS) =>
         LET m    == GEOS.val[DimerKey(rxn)]
             last == m.frags[Len(m.frags)]
         IN  /\ Len(last.atoms) = 1
             /\ last.atoms[1].ghost
             /\ last.atoms[1].sym = "H"
             /\ \A c \in 1..3 : IsZero(last.atoms[1].xyz[c])
             /\ \A f \in 1..(Len(m.frags) - 1) : AllReal(m.frags[f])

C9_Witness ==
  /\ pc = "derive" /\ i = 0
  /\ Cardinality({rxn \in Range(HRXN) : DimerKey(rxn) \in Keys(GEOS)}) = 120
  /\ GEOS.val["O24by5mb-23-2.0-dimer"].frags[3].atoms[1].ghost

Syms(frag) == [j \in DOMAIN frag.atoms |-> frag.atoms[j].sym]

\* C10: the geometry under "O24by5mb-9-1.0-dimer" has two real fragments, each
\* an O2 molecule (two oxygen atoms) with charge 0 and multiplicity 3, and the
\* anchor ghost atom.
C10_O2Dimer ==
  "O24by5mb-9-1.0-dimer" \in Keys(GEOS) =>
    LET m == GEOS.val["O24by5mb-9-1.0-dimer"]
    IN  /\ Len(m.frags) = 3
        /\ \A f \in 1..2 :
             /\ Syms(m.frags[f]) = <<"O", "O">>
             /\ AllReal(m.frags[f])
             /\ m.frags[f].declared
             /\ m.frags[f].charge = 0
             /\ m.frags[f].mult = 3
        /\ Syms(m.frags[3]) = <<"H">>
        /\ AllGhost(m.frags[3])

C10_Witness ==
  /\ pc = "geos" /\ i = 42
  /\ "O24by5mb-9-1.0-dimer" \in Keys(GEOS)
  /\ Len(GEOS.val["O24by5mb-9-1.0-dimer"].frags[1].atoms) = 2

\* The real centers of a molecule: <<fragment, position, symbol, xyz>>.
RealAtoms(m) ==
  UNION {{<<f, j, m.frags[f].atoms[j].sym, m.frags[f].atoms[j].xyz>> :
            j \in {n \in DOMAIN m.frags[f].atoms : ~m.frags[f].atoms[n].ghost}} :
         f \in DOMAIN m.frags}

\* The same centers in the same order: element and coordinates.
SameCenters(fa, fb) ==
  /\ Len(fa.atoms) = Len(fb.atoms)
  /\ \A j \in DOMAIN fa.atoms :
       fa.atoms[j].sym = fb.atoms[j].sym /\ fa.atoms[j].xyz = fb.atoms[j].xyz

\* The number of reactions the derivation loop has gone through.
Derived == IF pc = "derive" THEN i ELSE IF pc = "done" THEN 120 ELSE 0

\* C8: for every reaction the derivation loop has gone through, GEOS holds
\* -monoA-CP, the reaction's own dimer with fragment 1 real and fragments 2 and
\* 3 as ghosts, and -monoB-CP, the same dimer with fragment 2 real and
\* fragments 1 and 3 as ghosts; the real atoms of the two monomers are
\* disjoint and together are the real atoms of the dimer.  After the loop this
\* holds of all 120 reactions.
C8_Monomers ==
  \A k \in 1..Derived :
    LET rxn == HRXN[k]
    IN  /\ DimerKey(rxn) \in Keys(GEOS)
        /\ ("O24by5mb-" \o rxn \o "-monoA-CP") \in Keys(GEOS)
        /\ ("O24by5mb-" \o rxn \o "-monoB-CP") \in Keys(GEOS)
        /\ LET d == GEOS.val[DimerKey(rxn)]
               a == GEOS.val["O24by5mb-" \o rxn \o "-monoA-CP"]
               b == GEOS.val["O24by5mb-" \o rxn \o "-monoB-CP"]
           IN  /\ Len(a.frags) = 3 /\ Len(b.frags) = 3
               /\ a.frags[1] = d.frags[1] /\ AllReal(a.frags[1])
               /\ \A f \in {2, 3} : SameCenters(a.frags[f], d.frags[f]) /\ AllGhost(a.frags[f])
               /\ b.frags[2] = d.frags[2] /\ AllReal(b.frags[2])
               /\ \A f \in {1, 3} : SameCenters(b.frags[f], d.frags[f]) /\ AllGhost(b.frags[f])
               /\ RealAtoms(a) \cap RealAtoms(b) = {}
               /\ RealAtoms(a) \cup RealAtoms(b) = RealAtoms(d)
               /\ RealAtoms(a) # {} /\ RealAtoms(b) # {}

C8_Witness ==
  /\ pc = "done"
  /\ Cardinality(Keys(GEOS)) = 360
  /\ Cardinality(RealAtoms(GEOS.val["O24by5mb-12-0.9-monoB-CP"])) = 3
  /\ Cardinality(RealAtoms(GEOS.val["O24by5mb-12-0.9-monoA-CP"])) = 1

----------------------------------------------------------------------------
Xyz(frag) == [j \in DOMAIN frag.atoms |-> frag.atoms[j].xyz]

\* C11: the geometry under "O24by5mb-9-1.0-monoA-CP" has the two oxygen atoms
\* of monomer A as real atoms and the two oxygen atoms of monomer B as ghost
\* centers, each at the coordinates it has in the dimer (those of the literal).
C11_O2MonoA ==
  "O24by5mb-9-1.0-monoA-CP" \in Keys(GEOS) =>
    LET a == GEOS.val["O24by5mb-9-1.0-monoA-CP"]
        d == GEOS.val["O24by5mb-9-1.0-dimer"]
    IN  /\ Syms(a.frags[1]) = <<"O", "O">> /\ AllReal(a.frags[1])
        /\ Syms(a.frags[2]) = <<"O", "O">> /\ AllGhost(a.frags[2])
        /\ Xyz(a.frags[1]) = Xyz(d.frags[1])
        /\ Xyz(a.frags[2]) = Xyz(d.frags[2])
        /\ Xyz(a.frags[1]) = << <<<<1, 0, 601000000>>, <<-1, 1, 650000000>>, <<1, 0, 0>>>>,
                                <<<<-1, 0, 601000000>>, <<-1, 1, 650000000>>, <<1, 0, 0>>>> >>
        /\ Xyz(a.frags[2]) = << <<<<1, 0, 0>>, <<1, 1, 650000000>>, <<1, 0, 601000000>>>>,
                                <<<<1, 0, 0>>, <<1, 1, 650000000>>, <<-1, 0, 601000000>>>> >>

C11_Witness ==
  /\ pc = "derive" /\ i = 42
  /\ "O24by5mb-9-1.0-monoA-CP" \in Keys(GEOS)
  /\ Len(GEOS.val["O24by5mb-9-1.0-monoA-CP"].frags[2].atoms) = 2

----------------------------------------------------------------------------
\* C12: for every reaction key, ACTV and ACTV_CP hold the list [dimer,
\* monoA-CP, monoB-CP] of the key's identifiers, in this order, and ACTV_SA
\* holds the list [dimer]; after the loop the three maps have the 120
\* reaction keys.
C12_ActiveLists ==
  /\ Keys(ACTV) = Keys(RXNM) /\ Keys(ACTV_CP) = Keys(RXNM) /\ Keys(ACTV_SA) = Keys(RXNM)
  /\ pc \notin {"members", "systems"} => Keys(ACTV) = RxnKeys
  /\ \A key \in Keys(ACTV) :
       /\ ACTV.val[key] = <<key \o "-dimer", key \o "-monoA-CP", key \o "-monoB-CP">>
       /\ ACTV_CP.val[key] = ACTV.val[key]
       /\ ACTV_SA.val[key] = <<key \o "-dimer">>

C12_Witness ==
  /\ pc = "bind" /\ i = 0
  /\ Cardinality(Keys(ACTV)) = 120
  /\ ACTV_CP.val["O24by5mb-24-2.0"][3] = "O24by5mb-24-2.0-monoB-CP"
  /\ Len(ACTV_SA.val["O24by5mb-24-2.0"]) = 1

----------------------------------------------------------------------------
\* The subset list a docstring row names.
SubsetNamed(name) ==
  IF name = "DD" THEN HRXN_DD ELSE IF name = "ED" THEN HRXN_ED ELSE HRXN_MX

\* The keys of reaction r: str(r) followed by each distance label.
KeysOf(r) == {str(r) \o DIST[d] : d \in 1..5}

\* C13: subset membership follows the table of the docstring: the five keys
\* of reactions 1 to 9 are in HRXN_DD, of 10 to 15 in HRXN_ED and of 16 to 24
\* in HRXN_MX, each reaction in the subset its row names and in no other, so
\* the keys of one reaction are never split over two subsets.
C13_DocstringSubsets ==
  Members =>
    LET in == [s \in {"DD", "ED", "MX"} |-> Range(SubsetNamed(s))]
    IN  /\ Len(DOC_TABLE) = 24
        /\ \A r \in 1..24 :
             /\ DOC_TABLE[r].no = r
             /\ DOC_TABLE[r].subset =
                  (IF r <= 9 THEN "DD" ELSE IF r <= 15 THEN "ED" ELSE "MX")
             /\ KeysOf(r) \subseteq in[DOC_TABLE[r].subset]
             /\ \A s \in {"DD", "ED", "MX"} \ {DOC_TABLE[r].subset} :
                  KeysOf(r) \cap in[s] = {}

C13_Witness ==
  /\ pc = "systems" /\ i = 0
  /\ KeysOf(9) \subseteq Range(HRXN_DD)
  /\ KeysOf(15) \subseteq Range(HRXN_ED)
  /\ KeysOf(16) \subseteq Range(HRXN_MX)

----------------------------------------------------------------------------
\* The number of assignment statements X[key] = ... the load has executed so
\* far: on each of RXNM, ACTV, ACTV_CP and ACTV_SA, on BIND by its literals, on
\* BIND by the rescaling loop, on TAGL and on GEOS.
DoneSystems ==
  IF pc = "members" THEN 0 ELSE IF pc = "systems" THEN i ELSE 120

DoneBindLit ==
  IF pc \in {"members", "systems"} THEN 0 ELSE IF pc = "bind" THEN i ELSE 120

DoneRescale ==
  IF pc \in {"members", "systems", "bind"} THEN 0 ELSE IF pc = "rescale" THEN i ELSE 120

DoneTagl ==
  IF pc \in {"members", "systems", "bind", "rescale"} THEN 0
  ELSE IF pc = "tagl" THEN i ELSE 480

DoneGeos ==
  IF pc = "geos" THEN i
  ELSE IF pc = "derive" THEN 120 + 2 * i
  ELSE IF pc = "done" THEN 360 ELSE 0

\* C14: during the load every key of RXNM, ACTV, ACTV_CP, ACTV_SA, TAGL and
\* GEOS is assigned exactly once and nothing is deleted: each map has as many
\* keys as assignments were made to it, so no assignment went to a key
\* already there and no key went away.  Every key of BIND is assigned once by
\* its literal (as many keys as literals) and once by the rescaling loop (as
\* many values divided, each once, as iterations).
C14_AssignedOnce ==
  /\ pc # "error"
  /\ Cardinality(Keys(RXNM)) = DoneSystems /\ Len(RXNM.order) = DoneSystems
  /\ Cardinality(Keys(ACTV)) = DoneSystems
  /\ Cardinality(Keys(ACTV_CP)) = DoneSystems
  /\ Cardinality(Keys(ACTV_SA)) = DoneSystems
  /\ Cardinality(Keys(TAGL)) = DoneTagl
  /\ Cardinality(Keys(GEOS)) = DoneGeos
  /\ Cardinality(Keys(BIND)) = DoneBindLit
  /\ Cardinality({k \in Keys(BIND) : Len(BIND.val[k].divs) = 1}) = DoneRescale
  /\ \A k \in Keys(BIND) : Len(BIND.val[k].divs) <= 1

C14_Witness ==
  /\ pc = "done"
  /\ Cardinality(Keys(RXNM)) = 120
  /\ Cardinality(Keys(BIND)) = 120
  /\ Cardinality(Keys(TAGL)) = 480
  /\ Cardinality(Keys(GEOS)) = 360
  /\ \A k \in Keys(BIND) : Len(BIND.val[k].divs) = 1

----------------------------------------------------------------------------
\* GEOS holds a derived monomer geometry.
SomeMonomer ==
  \E rxn \in Range(HRXN) :
    \/ ("O24by5mb-" \o rxn \o "-monoA-CP") \in Keys(GEOS)
    \/ ("O24by5mb-" \o rxn \o "-monoB-CP") \in Keys(GEOS)

\* C15: the load fills the tables in this order.  When RXNM or an active list
\* has an entry, HRXN and the three subsets are complete; when BIND has an
\* entry, RXNM and the three active lists have their 120 entries; when a value
\* of BIND is rescaled, BIND has its 120 literals; when TAGL has an entry, all
\* 120 values of BIND are rescaled; when GEOS has an entry, TAGL has its 480
\* entries; when GEOS has a monomer, it has all 120 dimers.
C15_LoadOrder ==
  /\ (Keys(RXNM) \cup Keys(ACTV) \cup Keys(ACTV_CP) \cup Keys(ACTV_SA)) # {} =>
       /\ Len(HRXN) = 120
       /\ Len(HRXN_DD) = 45 /\ Len(HRXN_ED) = 30 /\ Len(HRXN_MX) = 45
  /\ Keys(BIND) # {} =>
       /\ Cardinality(Keys(RXNM)) = 120 /\ Cardinality(Keys(ACTV)) = 120
       /\ Cardinality(Keys(ACTV_CP)) = 120 /\ Cardinality(Keys(ACTV_SA)) = 120
  /\ (\E k \in Keys(BIND) : BIND.val[k].divs # <<>>) => Cardinality(Keys(BIND)) = 120
  /\ Keys(TAGL) # {} =>
       /\ Cardinality(Keys(BIND)) = 120
       /\ \A k \in Keys(BIND) : BIND.val[k].divs # <<>>
  /\ Keys(GEOS) # {} => Cardinality(Keys(TAGL)) = 480
  /\ SomeMonomer => \A rxn \in Range(HRXN) : DimerKey(rxn) \in Keys(GEOS)

C15_Witness ==
  /\ pc = "derive" /\ i = 1
  /\ SomeMonomer
  /\ Keys(TAGL) # {} /\ Keys(BIND) # {} /\ Keys(RXNM) # {}

----------------------------------------------------------------------------

\* C16: each of the 120 dimer geometries has the same four directives, units
\* angstrom, no_reorient, no_com and symmetry c1, once each and no other.
C16_Directives ==
  /\ DimersAssigned => \A rxn \in Range(HRXN) : DimerKey(rxn) \in Keys(GEOS)
  /\ \A rxn \in Range(HRXN) :
       DimerKey(rxn) \in Keys(GEOS) =>
         LET dirs == GEOS.val[DimerKey(rxn)].directives
         IN  /\ Len(dirs) = 4
             /\ Range(dirs) = {<<"units", "angstrom">>, <<"no_reorient">>,
                               <<"no_com">>, <<"symmetry", "c1">>}

C16_Witness ==
  /\ pc = "derive" /\ i = 0
  /\ Cardinality({rxn \in Range(HRXN) : DimerKey(rxn) \in Keys(GEOS)}) = 120
  /\ Len(GEOS.val["O24by5mb-24-2.0-dimer"].directives) = 4

\* C17: every dimer is an open-shell complex: in each of the 120 dimer
\* geometries at least one of the two real fragments has a declared spin
\* multiplicity greater than 1.
C17_OpenShell ==
  /\ DimersAssigned => \A rxn \in Range(HRXN) : DimerKey(rxn) \in Keys(GEOS)
  /\ \A rxn \in Range(HRXN) :
       DimerKey(rxn) \in Keys(GEOS) =>
         LET m == GEOS.val[DimerKey(rxn)]
         IN  \E f \in 1..2 : m.frags[f].declared /\ m.frags[f].mult > 1

C17_Witness ==
  /\ pc = "derive" /\ i = 0
  /\ Cardinality({rxn \in Range(HRXN) : DimerKey(rxn) \in Keys(GEOS)}) = 120
  /\ GEOS.val["O24by5mb-8-0.9-dimer"].frags[1].mult = 1
  /\ GEOS.val["O24by5mb-8-0.9-dimer"].frags[2].mult = 3

----------------------------------------------------------------------------
\* The string a text stands for: the concatenation of its lexemes.
RECURSIVE Join(_)
Join(text) == IF Len(text) = 0 THEN "" ELSE text[1] \o Join(Tail(text))

\* The lexemes a, one blank, b follow one another in a text.
Names(text, a, b) ==
  \E k \in 1..(Len(text) - 2) : text[k] = a /\ text[k + 1] = " " /\ text[k + 2] = b

\* C18: the tag under the reaction key "O24by5mb-20-2.0" is a string that
\* names the system "Na Li" (the string " Na Li " of the source).
C18_TagNaLi ==
  "O24by5mb-20-2.0" \in Keys(TAGL) =>
    /\ Names(TAGL.val["O24by5mb-20-2.0"], "Na", "Li")
    /\ Join(TAGL.val["O24by5mb-20-2.0"]) = " Na Li "

C18_Witness ==
  /\ pc = "tagl" /\ i = 397
  /\ "O24by5mb-20-2.0" \in Keys(TAGL)
  /\ Len(TAGL.val["O24by5mb-20-2.0"]) = 5

----------------------------------------------------------------------------
\* The number of centers of a molecule, real and ghost.
NCenters(m) == Cardinality(UNION {{<<f, j>> : j \in DOMAIN m.frags[f].atoms} : f \in DOMAIN m.frags})

\* Molecule m is dimer d relabelled: the same centers (element, coordinates)
\* in the same fragments and order, the centers of the fragment partner now
\* ghosts and the real/ghost flag of every other center as in the dimer.
Relabelled(m, d, partner) ==
  /\ NCenters(m) = NCenters(d)
  /\ Len(m.frags) = Len(d.frags)
  /\ \A f \in DOMAIN d.frags :
       /\ SameCenters(m.frags[f], d.frags[f])
       /\ \A j \in DOMAIN d.frags[f].atoms :
            IF f = partner
              THEN m.frags[f].atoms[j].ghost /\ ~d.frags[f].atoms[j].ghost
              ELSE m.frags[f].atoms[j].ghost = d.frags[f].atoms[j].ghost

\* C19: fragment extraction is a relabelling, not a filter: for every reaction
\* the derivation loop has gone through, monoA-CP and monoB-CP each have as
\* many centers as the dimer, every center has the element and coordinates it
\* has in the dimer, and only the flag of the partner fragment's atoms (2 for
\* monoA-CP, 1 for monoB-CP) differs: they are ghosts.
C19_Relabelling ==
  \A k \in 1..Derived :
    LET rxn == HRXN[k]
        d   == GEOS.val[DimerKey(rxn)]
    IN  /\ ("O24by5mb-" \o rxn \o "-monoA-CP") \in Keys(GEOS)
        /\ ("O24by5mb-" \o rxn \o "-monoB-CP") \in Keys(GEOS)
        /\ Relabelled(GEOS.val["O24by5mb-" \o rxn \o "-monoA-CP"], d, 2)
        /\ Relabelled(GEOS.val["O24by5mb-" \o rxn \o "-monoB-CP"], d, 1)

C19_Witness ==
  /\ pc = "derive" /\ i = 1
  /\ NCenters(GEOS.val["O24by5mb-1-0.9-dimer"]) = 4
  /\ NCenters(GEOS.val["O24by5mb-1-0.9-monoA-CP"]) = 4
  /\ NCenters(GEOS.val["O24by5mb-1-0.9-monoB-CP"]) = 4
  /\ GEOS.val["O24by5mb-1-0.9-monoA-CP"].frags[2].atoms[1].ghost
  /\ \A j \in 1..2 : GEOS.val["O24by5mb-1-0.9-monoB-CP"].frags[1].atoms[j].ghost

----------------------------------------------------------------------------
\* The objects the entries of GEOS are.
Objects(h) == {h.at[key] : key \in DOMAIN h.at}

\* C20: deriving the monomers leaves the dimers untouched.  In every iteration
\* of the derivation loop each -dimer entry of GEOS stays the same object with
\* the same value (so the same real/ghost flags); monoB-CP is the extraction
\* from the dimer as it was before the iteration (fragment 2 real), not from
\* the monoA-CP just stored (whose fragment 2 is a ghost); the two entries
\* stored are two objects that were not in GEOS before, so neither is the
\* dimer.  When the loop ends every -dimer entry is
\* the molecule its literal assignment stored.
C20_DimersUntouched ==
  [][/\ (pc = "derive" /\ pc' = "derive") =>
          LET rxn   == HRXN[i + 1]
              monoA == "O24by5mb-" \o rxn \o "-monoA-CP"
              monoB == "O24by5mb-" \o rxn \o "-monoB-CP"
          IN  /\ \A r \in Range(HRXN) :
                   /\ DimerKey(r) \in Keys(GEOS')
                   /\ GEOS'.val[DimerKey(r)] = GEOS.val[DimerKey(r)]
                   /\ heap'.at[DimerKey(r)] = heap.at[DimerKey(r)]
              /\ GEOS'.val[monoB] = MonoB(GEOS.val[DimerKey(rxn)])
              /\ GEOS'.val[monoA] = MonoA(GEOS.val[DimerKey(rxn)])
              /\ heap'.at[monoA] \notin Objects(heap)
              /\ heap'.at[monoB] \notin Objects(heap)
              /\ heap'.at[monoA] # heap'.at[monoB]
              /\ DOMAIN heap'.at = Keys(GEOS')
     /\ pc' = "done" =>
          \A k \in 1..Len(GEOS_LIT) :
            LET dimer == "O24by5mb-" \o GEOS_LIT[k].key \o "-dimer"
            IN  /\ GEOS'.val[dimer] = Molecule(GEOS_LIT[k].text)
                /\ heap'.at[dimer] = k
                /\ AllReal(GEOS'.val[dimer].frags[1])
                /\ AllReal(GEOS'.val[dimer].frags[2])
                /\ AllGhost(GEOS'.val[dimer].frags[3])]_vars

C20_Witness ==
  /\ pc = "derive" /\ i = 1
  /\ heap.count = 122
  /\ heap.at["O24by5mb-1-0.9-dimer"] = 1
  /\ heap.at["O24by5mb-1-0.9-monoA-CP"] = 121
  /\ heap.at["O24by5mb-1-0.9-monoB-CP"] = 122
  /\ GEOS.val["O24by5mb-1-0.9-dimer"] = Molecule(GEOS_LIT[1].text)
  /\ AllGhost(GEOS.val["O24by5mb-1-0.9-monoA-CP"].frags[2])
  /\ AllReal(GEOS.val["O24by5mb-1-0.9-monoB-CP"].frags[2])

----------------------------------------------------------------------------
\* C21: the load never reaches an error state through a missing key.  No
\* exception has ended the load; in the derivation loop the -dimer key of
\* every member of HRXN still to be visited is already a key of GEOS; in the
\* rescaling loop BIND has the size the iterator started with and every key
\* the iterator still has to yield is a key of BIND.
C21_NoMissingKey ==
  /\ pc # "error" /\ err = ""
  /\ pc = "derive" =>
       \A k \in (i + 1)..Len(HRXN) : Fmt("-dimer", dbse, HRXN[k]) \in Keys(GEOS)
  /\ pc = "rescale" =>
       /\ iter.size = Len(BIND.order)
       /\ \A k \in (iter.pos + 1)..Len(BIND.order) : BIND.order[k] \in Keys(BIND)

C21_Witness ==
  /\ pc = "derive" /\ i = 2 /\ err = ""
  /\ Fmt("-dimer", dbse, HRXN[2]) \in Keys(GEOS)
  /\ Fmt("-monoB-CP", dbse, HRXN[2]) \in Keys(GEOS)
  /\ Len(BIND.order) = 120 /\ iter.pos = 120

----------------------------------------------------------------------------
\* The fragment identifiers HRXN implies: -dimer, -monoA-CP and -monoB-CP of
\* every member.
FragmentIds ==
  {Fmt(role, dbse, rxn) : role \in {"-dimer", "-monoA-CP", "-monoB-CP"}, rxn \in Range(HRXN)}

\* C22: referential integrity after the load.  Every fragment identifier that
\* is a key of RXNM[key] or an element of ACTV[key], ACTV_CP[key] or
\* ACTV_SA[key] is a key of GEOS and of TAGL; every reaction key is a key of
\* TAGL; GEOS has exactly 360 keys, the fragment identifiers HRXN implies, and
\* TAGL exactly 480, those and the 120 reaction keys.
C22_ReferentialIntegrity ==
  pc = "done" =>
    LET geos   == Keys(GEOS)
        tagl   == Keys(TAGL)
        ids    == FragmentIds
        rxns   == RxnKeys
        both   == geos \cap tagl
    IN  /\ Keys(RXNM) = rxns /\ Keys(ACTV) = rxns
        /\ Keys(ACTV_CP) = rxns /\ Keys(ACTV_SA) = rxns
        /\ \A key \in rxns :
             /\ Keys(RXNM.val[key]) \subseteq both
             /\ Range(ACTV.val[key]) \subseteq both
             /\ Range(ACTV_CP.val[key]) \subseteq both
             /\ Range(ACTV_SA.val[key]) \subseteq both
             /\ key \in tagl
        /\ Cardinality(geos) = 360
        /\ geos = ids
        /\ Cardinality(tagl) = 480
        /\ tagl = ids \cup rxns

C22_Witness ==
  /\ pc = "done"
  /\ Len(GEOS.order) = 360 /\ Len(TAGL.order) = 480
  /\ Range(ACTV_CP.val["O24by5mb-24-2.0"]) \subseteq Keys(GEOS) \cap Keys(TAGL)
  /\ Keys(RXNM.val["O24by5mb-24-2.0"]) \subseteq Keys(GEOS) \cap Keys(TAGL)

----------------------------------------------------------------------------
\* A species name of the docstring table or of a tag, read as a chemical
\* formula: how many atoms of each element, and the charge.
Composition(name) ==
  CASE name = "CN" -> [atoms |-> ("C" :> 1 @@ "N" :> 1), charge |-> 0]
    [] name = "NH" -> [atoms |-> ("N" :> 1 @@ "H" :> 1), charge |-> 0]
    [] name = "OH" -> [atoms |-> ("O" :> 1 @@ "H" :> 1), charge |-> 0]
    [] name = "HF" -> [atoms |-> ("H" :> 1 @@ "F" :> 1), charge |-> 0]
    [] name = "CO+" -> [atoms |-> ("C" :> 1 @@ "O" :> 1), charge |-> 1]
    [] name \in {"He", "He*"} -> [atoms |-> ("He" :> 1), charge |-> 0]
    [] name = "Ar" -> [atoms |-> ("Ar" :> 1), charge |-> 0]
    [] name = "Na" -> [atoms |-> ("Na" :> 1), charge |-> 0]
    [] name = "Li" -> [atoms |-> ("Li" :> 1), charge |-> 0]
    [] name = "H2" -> [atoms |-> ("H" :> 2), charge |-> 0]
    [] name = "N2" -> [atoms |-> ("N" :> 2), charge |-> 0]
    [] name \in {"O2", "O2(sp)", "O2(gm)"} -> [atoms |-> ("O" :> 2), charge |-> 0]
    [] name = "H2O" -> [atoms |-> ("H" :> 2 @@ "O" :> 1), charge |-> 0]
    [] name = "O2H" -> [atoms |-> ("O" :> 2 @@ "H" :> 1), charge |-> 0]
    [] name = "NH2" -> [atoms |-> ("N" :> 1 @@ "H" :> 2), charge |-> 0]
    [] name \in {"NH3", "NH3(gm)", "NH3(lm)"} -> [atoms |-> ("N" :> 1 @@ "H" :> 3), charge |-> 0]
    [] name = "CO2" -> [atoms |-> ("C" :> 1 @@ "O" :> 2), charge |-> 0]
    [] name = "CH2O" -> [atoms |-> ("C" :> 1 @@ "H" :> 2 @@ "O" :> 1), charge |-> 0]
    [] name = "C2H3" -> [atoms |-> ("C" :> 2 @@ "H" :> 3), charge |-> 0]
    [] name = "C2H4" -> [atoms |-> ("C" :> 2 @@ "H" :> 4), charge |-> 0]

SpeciesNames ==
  {"CN", "NH", "OH", "HF", "CO+", "He", "He*", "Ar", "Na", "Li", "H2", "N2", "O2",
   "O2(sp)", "O2(gm)", "H2O", "O2H", "NH2", "NH3", "NH3(gm)", "NH3(lm)", "CO2",
   "CH2O", "C2H3", "C2H4"}

\* The species names in a tag, in the order the tag has them.
TagSpecies(text) == SelectSeq(text, LAMBDA w : w \in SpeciesNames)

\* A fragment is the species name: same atoms of each element, same charge.
IsSpecies(frag, name) ==
  LET s == Syms(frag)
  IN  /\ name \in SpeciesNames
      /\ [e \in Range(s) |-> Cardinality({j \in DOMAIN s : s[j] = e})]
           = Composition(name).atoms
      /\ frag.charge = Composition(name).charge

\* C23: for every reaction, monomer A (fragment 1 of the dimer, the real part
\* of monoA-CP) is the species the docstring table and the reaction's tags
\* name first, and monomer B (fragment 2) the species they name second; so
\* for reaction 12, "H2O - Na", fragment 1 is H2O and fragment 2 is Na, and
\* for reaction 24, "HF - CO+", fragment 1 is HF and fragment 2 is CO+.
C23_MonomerOrder ==
  \A r \in 1..24 : \A d \in 1..Len(DIST) :
    LET rxn   == str(r) \o DIST[d]
        dimer == Fmt("-dimer", dbse, rxn)
        monoA == Fmt("-monoA-CP", dbse, rxn)
    IN  dimer \in Keys(GEOS) =>
          LET m     == GEOS.val[dimer]
              names == TagSpecies(TAGL.val[Fmt("", dbse, rxn)])
          IN  /\ IsSpecies(m.frags[1], DOC_TABLE[r].A)
              /\ IsSpecies(m.frags[2], DOC_TABLE[r].B)
              /\ Len(names) = 2
              /\ IsSpecies(m.frags[1], names[1])
              /\ IsSpecies(m.frags[2], names[2])
              /\ monoA \in Keys(GEOS) =>
                   /\ AllReal(GEOS.val[monoA].frags[1])
                   /\ IsSpecies(GEOS.val[monoA].frags[1], DOC_TABLE[r].A)

----------------------------------------------------------------------------
\* What a fragment is made of: declared charge and multiplicity, and the
\* element symbols of its atoms in order.
Makeup(frag) == <<frag.declared, frag.charge, frag.mult, Syms(frag)>>

\* C24: the dimer geometries of one reaction have the same composition.  Any
\* two of them that GEOS holds have the same charge and multiplicity for
\* fragment 1 and for fragment 2 and the same sequence of element symbols in
\* each fragment (the anchor included), the same ghost flags and the same
\* directives; their coordinates are what differs.
C24_SameComposition ==
  \A r \in 1..24 : \A d1, d2 \in 1..Len(DIST) :
    LET k1 == Fmt("-dimer", dbse, str(r) \o DIST[d1])
        k2 == Fmt("-dimer", dbse, str(r) \o DIST[d2])
    IN  (d1 < d2 /\ k1 \in Keys(GEOS) /\ k2 \in Keys(GEOS)) =>
          LET m1 == GEOS.val[k1]
              m2 == GEOS.val[k2]
          IN  /\ Len(m1.frags) = 3 /\ Len(m2.frags) = 3
              /\ \A f \in 1..3 :
                   /\ Makeup(m1.frags[f]) = Makeup(m2.frags[f])
                   /\ m1.frags[f].type = m2.frags[f].type
                   /\ \A j \in DOMAIN m1.frags[f].atoms :
                        m1.frags[f].atoms[j].ghost = m2.frags[f].atoms[j].ghost
              /\ m1.directives = m2.directives
              /\ \E f \in 1..2 : Xyz(m1.frags[f]) # Xyz(m2.frags[f])

C24_Witness ==
  /\ pc = "geos" /\ i = 5
  /\ \A d \in 1..5 : Fmt("-dimer", dbse, "1" \o DIST[d]) \in Keys(GEOS)
  /\ \A d \in 1..5 :
       /\ Makeup(GEOS.val[Fmt("-dimer", dbse, "1" \o DIST[d])].frags[1])
            = <<TRUE, 0, 2, <<"C", "N">> >>
       /\ Makeup(GEOS.val[Fmt("-dimer", dbse, "1" \o DIST[d])].frags[2])
            = <<TRUE, 0, 1, <<"He">> >>

----------------------------------------------------------------------------
\* The values a tag annotates with "R=".
Annotated(text) == {text[k + 1] : k \in {n \in 1..(Len(text) - 1) : text[n] = "R="}}

\* C25: whenever the tag of a reaction key carries an "R=" annotation, the
\* annotated value is the distance label of that key (0.9, 1.0, 1.2, 1.5 or
\* 2.0): no reaction tag is annotated with the distance of another key.
C25_TagDistance ==
  \A r \in 1..24 : \A d \in 1..Len(DIST) :
    LET key == Fmt("", dbse, str(r) \o DIST[d])
    IN  key \in Keys(TAGL) =>
          \A value \in Annotated(TAGL.val[key]) : "-" \o value = DIST[d]

----------------------------------------------------------------------------
\* float(label) of a distance label "-u.t", in tenths.
Tenths(label) == CHOOSE n \in 0..99 : "-" \o str(n \div 10) \o "." \o str(n % 10) = label

\* k times the coordinate c = <<sign, units, 10^-9 units>>, for 0 <= k <= 20,
\* exactly: the fraction is multiplied in two limbs of 5 and 4 digits.
Times(c, k) ==
  LET lo  == k * (c[3] % 100000)
      mid == k * (c[3] \div 100000) + (lo \div 100000)
  IN  <<c[1], k * c[2] + (mid \div 10000), (mid % 10000) * 100000 + (lo % 100000)>>

\* C26: in the atom-atom systems, reaction 20 (Na-Li) and reaction 23
\* (He*-He*), the distance label scales the separation.  Each fragment of a
\* dimer is one atom on the x axis; its x coordinate at label d is d times its
\* x coordinate at label 1.0, exactly on the tabulated decimals (10 x(d) =
\* tenths(d) x(1.0)); the two atoms are at -x and +x, symmetric about the
\* anchor at the origin.
C26_LabelScales ==
  \A r \in {20, 23} : \A d \in 1..Len(DIST) :
    LET kd == Fmt("-dimer", dbse, str(r) \o DIST[d])
        k1 == Fmt("-dimer", dbse, str(r) \o "-1.0")
    IN  (kd \in Keys(GEOS) /\ k1 \in Keys(GEOS)) =>
          LET md == GEOS.val[kd]
              m1 == GEOS.val[k1]
              a  == md.frags[1].atoms[1].xyz
              b  == md.frags[2].atoms[1].xyz
          IN  /\ \A f \in 1..3 : Len(md.frags[f].atoms) = 1
              /\ \A f \in 1..2 :
                   /\ Times(md.frags[f].atoms[1].xyz[1], 10)
                        = Times(m1.frags[f].atoms[1].xyz[1], Tenths(DIST[d]))
                   /\ IsZero(md.frags[f].atoms[1].xyz[2])
                   /\ IsZero(md.frags[f].atoms[1].xyz[3])
              /\ a[1][1] = -1 /\ b[1][1] = 1
              /\ a[1][2] = b[1][2] /\ a[1][3] = b[1][3]
              /\ ~IsZero(a[1])
              /\ \A c \in 1..3 : IsZero(md.frags[3].atoms[1].xyz[c])

C26_Witness ==
  /\ pc = "geos" /\ i = 100
  /\ GEOS.val["O24by5mb-20-2.0-dimer"].frags[2].atoms[1].xyz[1] = <<1, 4, 720000000>>
  /\ GEOS.val["O24by5mb-20-1.0-dimer"].frags[2].atoms[1].xyz[1] = <<1, 2, 360000000>>
  /\ Tenths("-2.0") = 20
  /\ Times(<<1, 4, 720000000>>, 10) = <<1, 47, 200000000>>
  /\ Times(<<1, 2, 360000000>>, 20) = <<1, 47, 200000000>>

----------------------------------------------------------------------------
\* The total charge of a dimer: the declared charges of its two real
\* fragments added.
TotalCharge(m) == m.frags[1].charge + m.frags[2].charge

\* C27: the total charge of a dimer is 0 for every geometry of reactions 1 to
\* 23, where both fragments are neutral, and +1 for the five geometries of
\* reaction 24, where exactly one fragment carries the charge.
C27_TotalCharge ==
  \A r \in 1..24 : \A d \in 1..Len(DIST) :
    LET key == Fmt("-dimer", dbse, str(r) \o DIST[d])
    IN  key \in Keys(GEOS) =>
          LET m == GEOS.val[key]
              charged == {f \in 1..2 : m.frags[f].charge # 0}
          IN  /\ m.frags[1].declared /\ m.frags[2].declared
              /\ AllReal(m.frags[1]) /\ AllReal(m.frags[2])
              /\ TotalCharge(m) = (IF r = 24 THEN 1 ELSE 0)
              /\ Cardinality(charged) = (IF r = 24 THEN 1 ELSE 0)

C27_Witness ==
  /\ pc = "geos" /\ i = 116
  /\ TotalCharge(GEOS.val["O24by5mb-24-0.9-dimer"]) = 1
  /\ GEOS.val["O24by5mb-24-0.9-dimer"].frags[1].charge = 1
  /\ GEOS.val["O24by5mb-24-0.9-dimer"].frags[2].charge = 0
  /\ TotalCharge(GEOS.val["O24by5mb-23-2.0-dimer"]) = 0

====
